---- MODULE Spec2Model ----
(***************************************************************************)
(* Model of the real-time segmentation and transcription pipeline of       *)
(* backend/main_consolidated.py: AudioBuffer (segmenting buffer),          *)
(* WhisperASR (engine load and transcribe-time fallback), ASRProcessor,    *)
(* and the websocket session handlers, plus the load routine of            *)
(* backend/app/services/transcription_service.py.                          *)
(*                                                                         *)
(* Durations are kept in samples (duration = len(data) / sample_rate), so  *)
(* every comparison of the source between seconds is multiplied through    *)
(* by sample_rate and is exact.                                            *)
(***************************************************************************)
EXTENDS Integers, Sequences, FiniteSets, TLC

VARIABLES
    \* ---- AudioBuffer (the one instance owned by the global asr_processor)
    audio_buffer,       \* [buffer, speech_frames, silence_frames, total_duration]
    \* ---- observation of the buffer-only specification
    fed,                \* chunks given to add_chunk since construction
    emits,              \* segments returned by add_chunk, with the call index
    \* ---- WhisperASR
    whisper,            \* [model, model_size, device, compute_type]
    loader,             \* the _load_model thread: [pc, cuda_available, idx, loaded]
    tr,                 \* observation: the last direct transcribe_segment call
    \* ---- TranscriptionService (app/services/transcription_service.py)
    service,            \* [pc, model]
    \* ---- ASRProcessor and the module globals of main_consolidated.py
    asr_processor,      \* "None" or "ASRProcessor"
    asr,                \* [session_id, transcripts] of the ASRProcessor
    connected_clients,  \* keys of the dict, in insertion order
    active_sessions,    \* client_id -> session, or NoSession
    \* ---- one websocket_endpoint task per connection
    conn,               \* "open" (accepted, in the receive loop) or "closed"
    peer,               \* TRUE while the remote end is there
    client_id,          \* the task's local client_id, or "None"
    pc,                 \* "recv", "bcast", "stop_send"
    bc,                 \* the broadcast_to_all iteration of the task
    inbox,              \* messages delivered to the connection's peer
    now,                \* int(time.time()); the runs stay within one second
    \* ---- observation
    stopped,            \* sessions whose stop_recording handler returned
    ev,                 \* the message dispatched last: [c, type]
    session_owner,      \* the connection that started session 1, 2, ...
    \* ---- the session folder on disk
    saved,              \* transcript files written, per session
    \* ---- post-decoding filter of transcribe_segment, taken alone
    filt,               \* [path, raw, segments, text, again, again_text]
    \* ---- transcript aggregation of handle_stop_recording, taken alone
    agg,                \* the quality metrics computed for a transcript log
    \* ---- one transcribe_segment call of the event loop, step by step
    mx,                 \* [pc, lock, env, calls]
    \* ---- the identities of websocket_endpoint, with client ids chosen
    \* ---- by the clients and a running clock
    ep,                 \* [connected_clients, active_sessions, client_id,
                        \*  open, issued, msgs]
    \* ---- the frame loop of add_chunk, taken alone, frame by frame
    vad,                \* [before, n, trace, after, done]
    nmsg,               \* messages dispatched by the receive loops
    nchunk, nutt, nsess,\* serial numbers of chunks, utterances, sessions
    submitted, emitted, \* samples per session serial
    last_utt            \* chunks of the last utterance emitted

bufvars == <<audio_buffer, fed, emits>>
obsbuf == <<fed, emits>>
purevars == <<filt, agg, mx, ep, vad>>
obsmsg == <<ev, session_owner, saved, purevars>>
enginevars == <<whisper, loader, tr>>
connvars == <<conn, peer, client_id, pc, bc, inbox>>
countvars == <<nmsg, nchunk, nutt, nsess, submitted, emitted, last_utt>>
servervars == <<asr_processor, asr, connected_clients, active_sessions,
                conn, peer, client_id, pc, bc, inbox, now, stopped,
                nmsg, nchunk, nutt, nsess, submitted, emitted, last_utt>>
vars == <<audio_buffer, fed, emits, whisper, loader, tr, service,
          asr_processor, asr, connected_clients, active_sessions,
          conn, peer, client_id, pc, bc, inbox, now, stopped,
          nmsg, nchunk, nutt, nsess, submitted, emitted, last_utt,
          ev, session_owner, saved, filt, agg, mx, ep, vad>>

\* ------------------------------------------------------------------ bounds
MaxFed == 6             \* chunks fed in the buffer-only specification
MaxMsgs == 4            \* messages dispatched in the server specification
MaxDrops == 1           \* peers that go away in the server specification
MaxSegs == 2            \* segments the model returns for one audio segment
MaxLog == 3             \* transcripts in an aggregated session log
MaxEpMsgs == 4          \* messages dispatched in the identity specification
MaxNow == 1             \* seconds the clock advances in it
MaxSmallFed == 101      \* chunks of a stream of sub-frame chunks
SmallChunk == 400       \* samples of a chunk shorter than one VAD frame
MaxFrames == 3          \* VAD frames of a chunk in the frame-loop specification
MaxCalls == 2           \* transcribe_segment calls followed step by step

\* --------------------------------------------------- AudioBuffer constants
sample_rate == 16000
segment_duration == 3
max_buffer_duration == 15
\* A speech minimum of two seconds of frames.
min_speech_frames_2s == 2000 \div 30

\* int(0.2 * 1000 / 30)
min_speech_frames == 200 \div 30

\* The first assignment of __init__, int(0.5 * 1000 / 30), which the later
\* one overwrites.
max_silence_frames_500ms == 500 \div 30

\* int(1.0 * 1000 / 30), the assignment that stands.
max_silence_frames == 1000 \div 30

frame_samples == 480
chunk_ceiling == 100
\* deque(maxlen=1000)
buffer_maxlen == 1000

\* A chunk as add_chunk receives it: n samples, the timestamp the client
\* sent, and the VAD verdict for its frames (the VAD trace is an input).
\* id names the data, owner the session that submitted it.
Chunk(n, loud, ts, id, owner) ==
    [n |-> n, loud |-> loud, ts |-> ts, id |-> id, owner |-> owner]

\* AudioSegment.duration, in samples.
Duration(n) == n

\* VADProcessor.is_speech on one complete frame of the chunk.
is_speech(chunk) == chunk.loud

\* deque.append on a deque with maxlen: a full deque drops its oldest item.
deque_append(q, x) ==
    IF Len(q) >= buffer_maxlen THEN Append(Tail(q), x) ELSE Append(q, x)

EmptyBuffer ==
    [buffer |-> << >>, speech_frames |-> 0, silence_frames |-> 0,
     total_duration |-> 0]

RECURSIVE SumSamples(_)
SumSamples(chunks) ==
    IF chunks = << >> THEN 0
    ELSE Head(chunks).n + SumSamples(Tail(chunks))

\* AudioBuffer._create_segment: the segment (or None) and the buffer left.
NoSegment == [none |-> TRUE]

\* _create_segment returning the segment without the buffer.clear() and the
\* counter resets that follow it.
create_segment_keep(b) ==
    IF b.buffer = << >> THEN [seg |-> NoSegment, buf |-> b]
    ELSE IF SumSamples(b.buffer) > 0
         THEN [seg |-> [none |-> FALSE,
                        chunks |-> b.buffer,
                        n |-> SumSamples(b.buffer),
                        timestamp |-> Head(b.buffer).ts],
               buf |-> b]
         ELSE [seg |-> NoSegment, buf |-> b]

\* _create_segment stamping the segment with its newest chunk's timestamp.
create_segment_newest_timestamp(b) ==
    IF b.buffer = << >> THEN [seg |-> NoSegment, buf |-> b]
    ELSE IF SumSamples(b.buffer) > 0
         THEN [seg |-> [none |-> FALSE,
                        chunks |-> b.buffer,
                        n |-> SumSamples(b.buffer),
                        timestamp |-> b.buffer[Len(b.buffer)].ts],
               buf |-> EmptyBuffer]
         ELSE [seg |-> NoSegment, buf |-> b]

\* _create_segment whose reset keeps the newest chunk in the buffer.
create_segment_overlap(b) ==
    IF b.buffer = << >> THEN [seg |-> NoSegment, buf |-> b]
    ELSE IF SumSamples(b.buffer) > 0
         THEN [seg |-> [none |-> FALSE,
                        chunks |-> b.buffer,
                        n |-> SumSamples(b.buffer),
                        timestamp |-> Head(b.buffer).ts],
               buf |-> [EmptyBuffer EXCEPT
                          !.buffer = <<b.buffer[Len(b.buffer)]>>]]
         ELSE [seg |-> NoSegment, buf |-> b]

create_segment(b) ==
    IF b.buffer = << >> THEN [seg |-> NoSegment, buf |-> b]
    ELSE IF SumSamples(b.buffer) > 0
         THEN [seg |-> [none |-> FALSE,
                        chunks |-> b.buffer,
                        n |-> SumSamples(b.buffer),
                        timestamp |-> Head(b.buffer).ts],
               buf |-> EmptyBuffer]
         ELSE [seg |-> NoSegment, buf |-> b]

\* The frame loop of add_chunk: range(0, len, frame_samples), complete
\* frames only. All frames of a chunk get the same verdict, so the loop's
\* result is given in closed form: k speech frames add k to speech_frames
\* and zero silence_frames, k silence frames add k to silence_frames.
FullFrames(chunk) == chunk.n \div frame_samples

CountFrames(b, chunk) ==
    IF FullFrames(chunk) = 0 THEN b
    ELSE IF is_speech(chunk)
    THEN [b EXCEPT !.speech_frames = @ + FullFrames(chunk),
                   !.silence_frames = 0]
    ELSE [b EXCEPT !.silence_frames = @ + FullFrames(chunk)]

\* The frame loop frame by frame. The verdict of a frame is what
\* webrtcvad answers for it, or "error" when the classification raises:
\* VADProcessor.is_speech catches that and returns True.
Verdicts == {"speech", "silence", "error"}

vad_is_speech_fail_closed(verdict) == verdict = "speech"

vad_is_speech(verdict) == verdict \in {"speech", "error"}

\* for i in range(0, len(audio_data), frame_samples), from iteration i on:
\* n samples, trace[i + 1] the verdict of the frame at offset i * 480.
RECURSIVE frame_loop(_, _, _, _)
frame_loop(b, n, trace, i) ==
    IF i * frame_samples >= n THEN b
    ELSE LET complete == (i + 1) * frame_samples <= n
             b1 == IF ~complete THEN b
                   ELSE IF vad_is_speech(trace[i + 1])
                   THEN [b EXCEPT !.speech_frames = @ + 1,
                                  !.silence_frames = 0]
                   ELSE [b EXCEPT !.silence_frames = @ + 1]
         IN  frame_loop(b1, n, trace, i + 1)

NoVad == [before |-> EmptyBuffer, n |-> 0, trace |-> << >>,
          after |-> EmptyBuffer, done |-> FALSE]

OverflowReached(b) ==
    b.total_duration >= max_buffer_duration * sample_rate

VadBoundary(b) ==
    /\ b.speech_frames >= min_speech_frames
    /\ b.silence_frames >= max_silence_frames

\* The duration fallback firing only past segment_duration.
DurationReached_strict(b) ==
    b.total_duration > segment_duration * sample_rate

DurationReached(b) ==
    b.total_duration >= segment_duration * sample_rate

CountReached(b) == Len(b.buffer) >= chunk_ceiling

\* add_chunk without its last test, the chunk-count fallback.
add_chunk_without_count(b, chunk) ==
    LET b1 == [b EXCEPT !.buffer = deque_append(@, chunk),
                        !.total_duration = @ + Duration(chunk.n)]
    IN  IF OverflowReached(b1) THEN create_segment(b1)
        ELSE LET b2 == CountFrames(b1, chunk)
             IN  IF VadBoundary(b2) THEN create_segment(b2)
                 ELSE IF DurationReached(b2) THEN create_segment(b2)
                 ELSE [seg |-> NoSegment, buf |-> b2]

\* AudioBuffer.add_chunk: [seg, buf].
add_chunk(b, chunk) ==
    LET b1 == [b EXCEPT !.buffer = deque_append(@, chunk),
                        !.total_duration = @ + Duration(chunk.n)]
    IN  IF OverflowReached(b1) THEN create_segment(b1)
        ELSE LET b2 == CountFrames(b1, chunk)
             IN  IF VadBoundary(b2) THEN create_segment(b2)
                 ELSE IF DurationReached(b2) THEN create_segment(b2)
                 ELSE IF CountReached(b2) THEN create_segment(b2)
                 ELSE [seg |-> NoSegment, buf |-> b2]

\* The branch add_chunk returns from, by the line it logs on the way:
\* the overflow warning (tested before the frame loop), "VAD triggered",
\* "Duration triggered", "Chunk count triggered", or nothing.
boundary_log(b, chunk) ==
    LET b1 == [b EXCEPT !.buffer = deque_append(@, chunk),
                        !.total_duration = @ + Duration(chunk.n)]
        b2 == CountFrames(b1, chunk)
    IN  IF OverflowReached(b1) THEN "overflow"
        ELSE IF VadBoundary(b2) THEN "vad"
        ELSE IF DurationReached(b2) THEN "duration"
        ELSE IF CountReached(b2) THEN "count"
        ELSE "None"

\* ------------------------------------------------------------ WhisperASR
NoModel == [size |-> "None", device |-> "None"]

\* WhisperModel(model_size, device=..., ...): the loaded model object.
WhisperModel(size, dev) == [size |-> size, device |-> dev]

\* WhisperASR.__init__: nothing loaded, compute_type as requested.
NewWhisper ==
    [model |-> NoModel, model_size |-> "None", device |-> "None",
     compute_type |-> "int8", requested_device |-> "auto"]

\* WhisperASR() constructed with FORCE_CPU_MODE=true in the environment.
ForcedWhisper == [NewWhisper EXCEPT !.requested_device = "cpu"]

is_ready(w) == w.model # NoModel

get_config_info(w) ==
    [model_size |-> w.model_size, device |-> w.device,
     compute_type |-> w.compute_type, is_ready |-> is_ready(w)]

\* Outcomes of the CUDA validation block of _load_model.
ProbeOutcomes ==
    {"import_error", "no_cuda", "no_cublas", "tensor_test_failed", "ok"}

\* cuda_available after the validation block: every failure, the raised
\* RuntimeError of the tensor test included, ends in cuda_available = False.
validate_cuda(outcome) == outcome = "ok"

fallback_models(cuda_available) ==
    IF cuda_available
    THEN << <<"medium", "cuda", "int8">>, <<"medium", "cpu", "int8">> >>
    ELSE << <<"medium", "cpu", "int8">>, <<"small", "cpu", "int8">> >>

\* The assignments after a successful WhisperModel(...) in _load_model.
active_config_requested(w, cfg) ==
    [w EXCEPT !.model_size = cfg[1], !.device = "auto",
              !.compute_type = cfg[3]]

active_config(w, cfg) ==
    [w EXCEPT !.model_size = cfg[1], !.device = cfg[2],
              !.compute_type = cfg[3]]

IdleLoader ==
    [pc |-> "idle", cuda_available |-> FALSE, idx |-> 0, loaded |-> FALSE]

\* WhisperASR.__init__ starts the _load_model thread.
StartLoader ==
    [pc |-> "probe", cuda_available |-> FALSE, idx |-> 0, loaded |-> FALSE]

\* _load_model, the CUDA validation block.
LoadProbe ==
    /\ loader.pc = "probe"
    /\ \E outcome \in ProbeOutcomes :
         loader' = [loader EXCEPT !.pc = "attempt",
                                  !.cuda_available = validate_cuda(outcome),
                                  !.idx = 1]
    /\ UNCHANGED <<whisper, tr, bufvars, service, servervars>>
    /\ UNCHANGED obsmsg

\* _load_model, one iteration of the loop over fallback_models: the model is
\* assigned under the lock; a failure continues with the next entry, and
\* after the last one self.model = None. loaded tells whether the
\* WhisperModel(...) call of this iteration returned.
LoadAttempt ==
    /\ loader.pc = "attempt"
    /\ mx.lock = "None"
    /\ LET cfg == fallback_models(loader.cuda_available)[loader.idx]
           last == loader.idx = Len(fallback_models(loader.cuda_available))
       IN  \E ok \in BOOLEAN :
             IF ok
             THEN /\ whisper' = [whisper EXCEPT
                                   !.model = WhisperModel(cfg[1], cfg[2])]
                  /\ loader' = [loader EXCEPT !.pc = "assign", !.loaded = TRUE]
             ELSE IF last
             THEN /\ whisper' = [whisper EXCEPT !.model = NoModel]
                  /\ loader' = [loader EXCEPT !.pc = "done"]
             ELSE /\ whisper' = whisper
                  /\ loader' = [loader EXCEPT !.idx = @ + 1]
    /\ UNCHANGED <<tr, bufvars, service, servervars>>
    /\ UNCHANGED obsmsg

\* _load_model, after the with-block: the configuration fields are written
\* outside the lock, then the thread returns.
LoadAssign ==
    /\ loader.pc = "assign"
    /\ whisper' = active_config(
                     whisper, fallback_models(loader.cuda_available)[loader.idx])
    /\ loader' = [loader EXCEPT !.pc = "done"]
    /\ UNCHANGED <<tr, bufvars, service, servervars>>
    /\ UNCHANGED obsmsg

\* WhisperASR.transcribe_segment. env is what the model runtime does on this
\* call: first is the outcome of model.transcribe plus filtering ("text",
\* "empty", or an exception whose message does or does not carry an
\* accelerator signature), reload whether WhisperModel(..., device="cpu")
\* succeeds, retry the outcome of the second model.transcribe.
\* Fields a path does not read are given once, as reload = FALSE and
\* retry = "error".
TranscribeEnv(first, reload, retry) ==
    [first |-> first, reload |-> reload, retry |-> retry]

TranscribeEnvs ==
    {TranscribeEnv(f, FALSE, "error") :
        f \in {"text", "empty", "cuda_error", "other_error"}}
    \cup {TranscribeEnv("cuda_error", TRUE, r) : r \in {"text", "empty", "error"}}

FilteredText(outcome) == IF outcome = "text" THEN "hello" ELSE ""

ErrorResult(seg, err) ==
    [kind |-> "return", text |-> "", start |-> seg.timestamp,
     end |-> seg.timestamp + Duration(seg.n), error |-> err,
     fallback_used |-> FALSE]

TextResult(seg, text, fallback) ==
    [kind |-> "return", text |-> text, start |-> seg.timestamp,
     end |-> seg.timestamp + Duration(seg.n), error |-> "None",
     fallback_used |-> fallback]

Raised == [kind |-> "raise", text |-> "", start |-> 0, end |-> 0,
           error |-> "raised", fallback_used |-> FALSE]

\* "cublas" in error_msg or "cuda" in error_msg or "gpu" in error_msg
is_cuda_error(first) == first = "cuda_error"

reload_on_cpu(w) ==
    [w EXCEPT !.model = WhisperModel(w.model_size, "cpu"),
              !.device = "cpu", !.compute_type = "int8"]

\* The CPU fallback written without its own try/except.
cpu_fallback_unguarded(w, seg, env) ==
    IF ~env.reload
    THEN [result |-> Raised, whisper |-> w, calls |-> 1, reloads |-> 1]
    ELSE IF env.retry = "error"
    THEN [result |-> Raised, whisper |-> reload_on_cpu(w),
          calls |-> 2, reloads |-> 1]
    ELSE [result |-> TextResult(seg, FilteredText(env.retry), TRUE),
          whisper |-> reload_on_cpu(w), calls |-> 2, reloads |-> 1]

\* The inner try of the except branch: reload on CPU, retry once; its own
\* except logs and falls through to the error result built from the first
\* exception.
cpu_fallback(w, seg, env) ==
    IF ~env.reload
    THEN [result |-> ErrorResult(seg, env.first), whisper |-> w,
          calls |-> 1, reloads |-> 1]
    ELSE IF env.retry = "error"
    THEN [result |-> ErrorResult(seg, env.first),
          whisper |-> reload_on_cpu(w), calls |-> 2, reloads |-> 1]
    ELSE [result |-> TextResult(seg, FilteredText(env.retry), TRUE),
          whisper |-> reload_on_cpu(w), calls |-> 2, reloads |-> 1]

transcribe_segment(w, seg, env) ==
    IF ~is_ready(w)
    THEN [result |-> ErrorResult(seg, "Model not ready"), whisper |-> w,
          calls |-> 0, reloads |-> 0]
    ELSE IF env.first \in {"text", "empty"}
    THEN [result |-> TextResult(seg, FilteredText(env.first), FALSE),
          whisper |-> w, calls |-> 1, reloads |-> 0]
    ELSE IF is_cuda_error(env.first) /\ w.device = "cuda"
    THEN cpu_fallback(w, seg, env)
    ELSE [result |-> ErrorResult(seg, env.first), whisper |-> w,
          calls |-> 1, reloads |-> 0]

\* What one call looked like, for the properties of transcribe_segment.
Observed(w, seg, env, out) ==
    [called |-> TRUE, seg |-> seg, env |-> env, device_before |-> w.device,
     ready_before |-> is_ready(w), result |-> out.result,
     calls |-> out.calls, reloads |-> out.reloads]

NotCalled ==
    [called |-> FALSE, seg |-> NoSegment,
     env |-> TranscribeEnv("text", FALSE, "error"),
     device_before |-> "None", ready_before |-> FALSE,
     result |-> Raised, calls |-> 0, reloads |-> 0]

\* The event loop is not inside transcribe_segment and _model_lock is free.
NoCall ==
    [pc |-> "idle", lock |-> "None",
     env |-> TranscribeEnv("text", FALSE, "error"), calls |-> 0]

\* Nothing decoded yet.
NoFilt ==
    [path |-> "None", raw |-> << >>, segments |-> << >>, text |-> << >>,
     again |-> << >>, again_text |-> << >>, refiltered |-> FALSE]

\* Nothing aggregated yet.
NoAgg ==
    [transcripts |-> << >>, valid_transcripts |-> << >>,
     original_transcript |-> << >>, total_transcript_segments |-> 0,
     valid_transcript_segments |-> 0, original_transcript_length |-> 0,
     transcript_quality |-> "None", done |-> FALSE]

\* ------------------------------------------------- TranscriptionService
\* TranscriptionService._initialize_model, run by the constructor of the
\* module-level transcription_service: CUDA first, CPU in the except
\* branch, and a bare raise when the CPU load fails too.
initialize_model(cuda_ok, cpu_ok) ==
    IF cuda_ok THEN [pc |-> "ready", model |-> WhisperModel("medium", "cuda")]
    ELSE IF cpu_ok
    THEN [pc |-> "ready", model |-> WhisperModel("medium", "cpu")]
    ELSE [pc |-> "raised", model |-> NoModel]

ServiceInit ==
    /\ service.pc = "init"
    /\ \E cuda_ok \in BOOLEAN, cpu_ok \in BOOLEAN :
         service' = initialize_model(cuda_ok, cpu_ok)
    /\ UNCHANGED <<bufvars, enginevars, servervars>>
    /\ UNCHANGED obsmsg

\* ------------------------------------------ globals and message handlers
Clients == {"c1", "c2"}

\* f"session_{int(time.time())}_{client_id}"
SessionId(t, c) == [t |-> t, c |-> c]
NoSessionId == [t |-> -1, c |-> "None"]
websocket_session == [t |-> -1, c |-> "websocket_session"]

\* The session dict of handle_start_recording; serial numbers the sessions
\* in creation order (observation only).
NewSession(sid, serial) ==
    [session_id |-> sid, transcripts |-> << >>, audio_chunks |-> 0,
     serial |-> serial]

NoSession == NewSession(NoSessionId, 0)

\* ------------------------------------ the identities of websocket_endpoint
\* client_id values as the dicts see them: a string the client put in its
\* handshake, or f"client_{int(time.time())}" made by the server.
GivenId(name) == [name |-> name, t |-> -1]
AutoId(t) == [name |-> "client", t |-> t]
NoId == [name |-> "None", t |-> -1]
PresentedIds == {GivenId("a"), GivenId("b")}
AllIds == PresentedIds \cup {AutoId(t) : t \in 0..(MaxNow + 1)}

\* A session of active_sessions: its session_id and, for observation, the
\* connection whose start_recording stored it.
EpSession(sid, w) == [session_id |-> sid, by |-> w]
NoEpSession == EpSession(NoSessionId, "None")

NoEndpoints ==
    [connected_clients |-> [i \in AllIds |-> "None"],
     active_sessions |-> [i \in AllIds |-> NoEpSession],
     client_id |-> [w \in Clients |-> NoId],
     open |-> [w \in Clients |-> TRUE],
     issued |-> << >>,
     msgs |-> 0]

Msg(type, sid, flag, uid, text, by, log) ==
    [type |-> type, session_id |-> sid, flag |-> flag, uid |-> uid,
     text |-> text, by |-> by, log |-> log]

NoMsg == Msg("None", NoSessionId, FALSE, 0, "", 0, << >>)

NoBc == [msg |-> NoMsg, size |-> 0, i |-> 0, disconnected |-> << >>]

\* Observation of the receive loop: the connection and the type of the
\* message it dispatched last.
Ev(c, type) == [c |-> c, type |-> type]

NoEv == Ev("None", "None")

\* The transcript files of a session, written by handle_stop_recording
\* after the acknowledgment: the session and the transcripts they hold.
Saved(session) == [k |-> session.serial, log |-> session.transcripts]

\* Observation of a returned stop_recording handler: the session it found.
Stopped(session, c) ==
    [k |-> session.serial, c |-> c, sid |-> session.session_id,
     log |-> session.transcripts]

Range(seq) == {seq[i] : i \in 1..Len(seq)}

RECURSIVE Without(_, _)
Without(seq, gone) ==
    IF seq = << >> THEN << >>
    ELSE IF Head(seq) \in gone THEN Without(Tail(seq), gone)
    ELSE <<Head(seq)>> \o Without(Tail(seq), gone)

\* connected_clients[client_id] = websocket
Register(cc, c) == IF c \in Range(cc) THEN cc ELSE Append(cc, c)

\* The registry when only a handshake registers a connection.
Identified_by_handshake(c) == connected_clients

\* "Ensure client is identified": a task without client_id registers itself
\* before any message other than a handshake is dispatched.
Identified(c) ==
    IF client_id[c] = "None" THEN Register(connected_clients, c)
    ELSE connected_clients

\* websocket.send_text to the peer of connection r raises once the peer is
\* gone; otherwise the message is delivered.
Sendable(r) == conn[r] = "open" /\ peer[r]

Send(inb, r, m) == IF Sendable(r) THEN [inb EXCEPT ![r] = Append(@, m)] ELSE inb

\* ASRProcessor.set_session
set_session(a, sid) == [a EXCEPT !.session_id = sid, !.transcripts = << >>]

\* Readiness taken to be the existence of the processor, whatever the
\* state of its model.
engine_created == asr_processor # "None"

\* asr_processor is not None and asr_processor.whisper.is_ready()
engine_ready == asr_processor # "None" /\ is_ready(whisper)

\* session["transcripts"].append(...) of handle_audio_chunk, written as an
\* insert at the front.
prepend_transcript(log, t) == <<t>> \o log

\* session["transcripts"].append(...) of handle_audio_chunk
append_transcript(log, t) == Append(log, t)

RECURSIVE SamplesOf(_, _)
SamplesOf(chunks, owner) ==
    IF chunks = << >> THEN 0
    ELSE (IF Head(chunks).owner = owner THEN Head(chunks).n ELSE 0)
         + SamplesOf(Tail(chunks), owner)

\* init_asr: ASRProcessor(sample_rate=16000) builds the one AudioBuffer and
\* the WhisperASR, whose constructor starts the _load_model thread; then
\* set_session("websocket_session").
InitAsr ==
    /\ asr_processor = "None"
    /\ asr_processor' = "ASRProcessor"
    /\ audio_buffer' = EmptyBuffer
    /\ whisper' = NewWhisper
    /\ loader' = StartLoader
    /\ asr' = set_session(asr, websocket_session)
    /\ UNCHANGED <<obsbuf, tr, service, connected_clients,
                   active_sessions, connvars, now, stopped, countvars>>
    /\ UNCHANGED obsmsg

\* init_asr in a process started with FORCE_CPU_MODE=true.
InitAsrForced ==
    /\ asr_processor = "None"
    /\ asr_processor' = "ASRProcessor"
    /\ audio_buffer' = EmptyBuffer
    /\ whisper' = ForcedWhisper
    /\ loader' = StartLoader
    /\ asr' = set_session(asr, websocket_session)
    /\ UNCHANGED <<obsbuf, tr, service, connected_clients,
                   active_sessions, connvars, now, stopped, countvars>>
    /\ UNCHANGED obsmsg

\* The remote end goes away; messages it sent earlier may still be queued.
PeerClose(c) ==
    /\ conn[c] = "open"
    /\ peer[c]
    /\ Cardinality({d \in Clients : ~peer[d]}) < MaxDrops
    /\ peer' = [peer EXCEPT ![c] = FALSE]
    /\ UNCHANGED <<bufvars, enginevars, service, asr_processor, asr,
                   connected_clients, active_sessions, conn, client_id, pc,
                   bc, inbox, now, stopped, countvars>>
    /\ UNCHANGED obsmsg

\* receive_text raises WebSocketDisconnect: break, then the finally block.
Disconnect(c) ==
    /\ conn[c] = "open"
    /\ pc[c] = "recv"
    /\ ~peer[c]
    /\ conn' = [conn EXCEPT ![c] = "closed"]
    /\ connected_clients' =
         IF client_id[c] # "None" THEN Without(connected_clients, {c})
         ELSE connected_clients
    /\ active_sessions' =
         IF client_id[c] # "None"
         THEN [active_sessions EXCEPT ![c] = NoSession]
         ELSE active_sessions
    /\ UNCHANGED <<bufvars, enginevars, service, asr_processor, asr, peer,
                   client_id, pc, bc, inbox, now, stopped, countvars>>
    /\ UNCHANGED obsmsg

\* The handshake branch of websocket_endpoint (one handshake per connection
\* is modelled; the client_id is the connection's own).
Handshake(c) ==
    /\ conn[c] = "open"
    /\ pc[c] = "recv"
    /\ client_id[c] = "None"
    /\ nmsg < MaxMsgs
    /\ nmsg' = nmsg + 1
    /\ client_id' = [client_id EXCEPT ![c] = c]
    /\ connected_clients' = Register(connected_clients, c)
    /\ inbox' = Send(inbox, c,
                     Msg("status", NoSessionId, engine_ready, 0, "", 0, << >>))
    /\ UNCHANGED <<bufvars, enginevars, service, asr_processor, asr,
                   active_sessions, conn, peer, pc, bc, now, stopped,
                   nchunk, nutt, nsess, submitted, emitted, last_utt>>
    /\ ev' = Ev(c, "handshake")
    /\ UNCHANGED <<session_owner, saved, purevars>>

\* The kinds of inbound text that are not a {type, data} envelope: text
\* json.loads rejects, JSON that is not an object (a list, a number, ...),
\* and an object without a "type".
MalformedKinds == {"not_json", "not_object", "no_type"}

\* The reply of the JSONDecodeError branch of the receive loop.
error_event == Msg("error", NoSessionId, FALSE, 0, "Invalid JSON format", 0, << >>)

\* The receive loop on a malformed message. json.loads raises
\* JSONDecodeError and its except branch sends the error event; data.get on
\* a non-object raises AttributeError, which the generic except branch only
\* logs; an object without "type" passes the identification step and ends in
\* the final else branch, which only prints.
Malformed(c) ==
    /\ conn[c] = "open"
    /\ pc[c] = "recv"
    /\ nmsg < MaxMsgs
    /\ nmsg' = nmsg + 1
    /\ \E kind \in MalformedKinds :
         /\ ev' = Ev(c, kind)
         /\ inbox' = IF kind = "not_json" THEN Send(inbox, c, error_event)
                     ELSE inbox
         /\ connected_clients' =
              IF kind = "no_type" THEN Identified(c) ELSE connected_clients
         /\ client_id' =
              IF kind = "no_type" THEN [client_id EXCEPT ![c] = c]
              ELSE client_id
    /\ UNCHANGED <<bufvars, enginevars, service, asr_processor, asr,
                   active_sessions, conn, peer, pc, bc, now, stopped,
                   nchunk, nutt, nsess, submitted, emitted, last_utt>>
    /\ UNCHANGED <<session_owner, saved, purevars>>

\* handle_start_recording. When the reply cannot be sent the except branch
\* tries to send an error, which cannot be sent either; the receive loop
\* then logs it or breaks, the latter being this step followed by Disconnect.
recording_started(sid, serial) ==
    Msg("recording_started", sid, engine_ready, 0, "", serial, << >>)

StartRecording(c) ==
    /\ conn[c] = "open"
    /\ pc[c] = "recv"
    /\ nmsg < MaxMsgs
    /\ nmsg' = nmsg + 1
    /\ LET sid == SessionId(now, c)
           reply == recording_started(sid, nsess + 1)
       IN  /\ active_sessions' =
                [active_sessions EXCEPT ![c] = NewSession(sid, nsess + 1)]
           /\ asr' = IF asr_processor # "None" THEN set_session(asr, sid)
                     ELSE asr
           /\ inbox' = Send(inbox, c, reply)
    /\ nsess' = nsess + 1
    /\ client_id' = [client_id EXCEPT ![c] = c]
    /\ connected_clients' = Identified(c)
    /\ UNCHANGED <<bufvars, enginevars, service, asr_processor, conn, peer,
                   pc, bc, now, stopped, nchunk, nutt, submitted, emitted,
                   last_utt>>
    /\ ev' = Ev(c, "start_recording")
    /\ session_owner' = Append(session_owner, c)
    /\ UNCHANGED <<saved, purevars>>

\* handle_stop_recording up to the await of websocket.send_text. The
\* artifact is represented by the session's transcript log. A send that
\* raises is caught by the handler's except, which returns.
recording_stopped(session) ==
    Msg("recording_stopped", session.session_id, FALSE, 0, "",
        session.serial, session.transcripts)

StopRecording(c) ==
    /\ conn[c] = "open"
    /\ pc[c] = "recv"
    /\ nmsg < MaxMsgs
    /\ nmsg' = nmsg + 1
    /\ client_id' = [client_id EXCEPT ![c] = c]
    /\ connected_clients' = Identified(c)
    /\ LET session == active_sessions[c]
           reply == recording_stopped(session)
       IN  IF session = NoSession
           THEN UNCHANGED <<pc, bc, inbox, stopped>>
           ELSE IF Sendable(c)
           THEN /\ inbox' = Send(inbox, c, reply)
                /\ pc' = [pc EXCEPT ![c] = "stop_send"]
                /\ bc' = [bc EXCEPT ![c] = [NoBc EXCEPT !.msg = reply]]
                /\ UNCHANGED stopped
           ELSE /\ stopped' = stopped \cup {Stopped(session, c)}
                /\ UNCHANGED <<pc, bc, inbox>>
    /\ UNCHANGED <<bufvars, enginevars, service, asr_processor, asr,
                   active_sessions, conn, peer, now, nchunk, nutt, nsess,
                   submitted, emitted, last_utt>>
    /\ ev' = Ev(c, "stop_recording")
    /\ UNCHANGED <<session_owner, saved, purevars>>

\* handle_stop_recording after the send: the files are saved and the
\* session is deleted.
StopFinish(c) ==
    /\ pc[c] = "stop_send"
    /\ active_sessions' = [active_sessions EXCEPT ![c] = NoSession]
    /\ pc' = [pc EXCEPT ![c] = "recv"]
    /\ bc' = [bc EXCEPT ![c] = NoBc]
    /\ stopped' = stopped \cup {Stopped(active_sessions[c], c)}
    /\ UNCHANGED <<bufvars, enginevars, service, asr_processor, asr,
                   connected_clients, conn, peer, client_id, inbox, now,
                   countvars>>
    /\ saved' = saved \cup {Saved(active_sessions[c])}
    /\ UNCHANGED <<ev, session_owner, purevars>>

\* The audio of an audio_chunk message: len(audio) and the VAD verdict.
ChunkKinds ==
    {[n |-> 16000, loud |-> TRUE], [n |-> 48000, loud |-> TRUE]}

\* The gate of handle_audio_chunk in front of process_audio_chunk:
\* asr_processor and asr_processor.whisper.is_ready() and audio_data
asr_gate(n) == engine_ready /\ n > 0

\* ASRProcessor.process_audio_chunk on the shared asr_processor: the chunk
\* goes into the one AudioBuffer; a segment is transcribed at once (the
\* coroutine has no suspension point), and a non-empty text becomes the
\* transcript message, stamped with the processor's current session_id.
process_audio_chunk(chunk, env, by) ==
    LET r == add_chunk(audio_buffer, chunk)
        emit == ~r.seg.none /\ r.seg.n > 0
        out == transcribe_segment(whisper, r.seg, env)
        has_text == emit /\ out.result.kind = "return" /\ out.result.text # ""
    IN  [buf |-> r.buf,
         emit |-> emit,
         seg |-> r.seg,
         whisper |-> IF emit THEN out.whisper ELSE whisper,
         has_text |-> has_text,
         msg |-> IF has_text
                 THEN Msg("transcript", asr.session_id, FALSE, nutt + 1,
                          out.result.text, by, << >>)
                 ELSE NoMsg]

\* broadcast_to_all up to its first await: the iteration over the dict
\* starts and the first send is issued.
start_broadcast(cc, m) ==
    IF cc = << >> THEN NoBc
    ELSE [msg |-> m, size |-> Len(cc), i |-> 1,
          disconnected |-> IF Sendable(cc[1]) THEN << >> ELSE <<cc[1]>>]

\* The model runtime is consulted only when the chunk completes a segment
\* while the gate is open.
EnvsFor(kind) ==
    IF asr_gate(kind.n)
       /\ ~add_chunk(audio_buffer, Chunk(kind.n, kind.loud, 0, 0, 0)).seg.none
    THEN TranscribeEnvs
    ELSE {TranscribeEnv("text", FALSE, "error")}

\* handle_audio_chunk up to the first await that suspends.
AudioChunk(c) ==
    /\ conn[c] = "open"
    /\ pc[c] = "recv"
    /\ nmsg < MaxMsgs
    /\ nmsg' = nmsg + 1
    /\ client_id' = [client_id EXCEPT ![c] = c]
    /\ \E kind \in ChunkKinds :
       \E env \in EnvsFor(kind) :
         LET session == active_sessions[c]
             cc == Identified(c)
             chunk == Chunk(kind.n, kind.loud, nchunk + 1, nchunk + 1,
                            session.serial)
             p == process_audio_chunk(chunk, env, session.serial)
         IN  IF session = NoSession
             THEN /\ connected_clients' = cc
                  /\ UNCHANGED <<audio_buffer, whisper, asr,
                                 active_sessions, pc, bc, inbox, nchunk,
                                 nutt, submitted, emitted, last_utt>>
             ELSE /\ nchunk' = nchunk + 1
                  /\ submitted' = [submitted EXCEPT ![session.serial] = @ + kind.n]
                  /\ connected_clients' = cc
                  /\ IF ~asr_gate(kind.n)
                     THEN /\ active_sessions' =
                               [active_sessions EXCEPT ![c].audio_chunks = @ + 1]
                          /\ UNCHANGED <<audio_buffer, whisper, asr, pc, bc,
                                         inbox, nutt, emitted, last_utt>>
                     ELSE /\ audio_buffer' = p.buf
                          /\ whisper' = p.whisper
                          /\ nutt' = IF p.emit THEN nutt + 1 ELSE nutt
                          /\ last_utt' = IF p.emit THEN p.seg.chunks ELSE last_utt
                          /\ emitted' =
                               IF p.emit
                               THEN [k \in DOMAIN emitted |->
                                        emitted[k] + SamplesOf(p.seg.chunks, k)]
                               ELSE emitted
                          /\ asr' = IF p.has_text
                                    THEN [asr EXCEPT !.transcripts = Append(@, p.msg)]
                                    ELSE asr
                          /\ active_sessions' =
                               [active_sessions EXCEPT
                                  ![c].audio_chunks = @ + 1,
                                  ![c].transcripts =
                                      IF p.has_text
                                      THEN append_transcript(
                                             @, [uid |-> p.msg.uid,
                                                 text |-> p.msg.text])
                                      ELSE @]
                          /\ IF p.has_text /\ cc # << >>
                             THEN /\ bc' = [bc EXCEPT ![c] = start_broadcast(cc, p.msg)]
                                  /\ inbox' = Send(inbox, cc[1], p.msg)
                                  /\ pc' = [pc EXCEPT ![c] = "bcast"]
                             ELSE UNCHANGED <<pc, bc, inbox>>
    /\ UNCHANGED <<obsbuf, loader, tr, service, asr_processor, conn,
                   peer, now, stopped, nsess>>
    /\ ev' = Ev(c, "audio_chunk")
    /\ UNCHANGED <<session_owner, saved, purevars>>

\* broadcast_to_all resumed after a send: the dict iterator raises
\* RuntimeError when the dict changed size (handle_audio_chunk catches it);
\* the exhausted iterator ends the loop and the clients whose send raised
\* are deleted; otherwise the next send is issued.
BroadcastStep(c) ==
    /\ pc[c] = "bcast"
    /\ IF Len(connected_clients) # bc[c].size
       THEN /\ pc' = [pc EXCEPT ![c] = "recv"]
            /\ bc' = [bc EXCEPT ![c] = NoBc]
            /\ UNCHANGED <<connected_clients, inbox>>
       ELSE IF bc[c].i = bc[c].size
       THEN /\ connected_clients' =
                 Without(connected_clients, Range(bc[c].disconnected))
            /\ pc' = [pc EXCEPT ![c] = "recv"]
            /\ bc' = [bc EXCEPT ![c] = NoBc]
            /\ UNCHANGED inbox
       ELSE LET r == connected_clients[bc[c].i + 1]
            IN  /\ inbox' = Send(inbox, r, bc[c].msg)
                /\ bc' = [bc EXCEPT ![c].i = @ + 1,
                                    ![c].disconnected =
                                        IF Sendable(r) THEN @ ELSE Append(@, r)]
                /\ UNCHANGED <<connected_clients, pc>>
    /\ UNCHANGED <<bufvars, enginevars, service, asr_processor, asr,
                   active_sessions, conn, peer, client_id, now, stopped,
                   countvars>>
    /\ UNCHANGED obsmsg

\* ------------------------------------------------ buffer-only specification
\* One AudioBuffer(sample_rate = 16000) fed by one caller.
FedSizes == {9600, 16000, 240000}

Ids(chunks) == [i \in 1..Len(chunks) |-> chunks[i].id]

Feed ==
    /\ Len(fed) < MaxFed
    /\ \E n \in FedSizes, loud \in BOOLEAN :
         LET chunk == Chunk(n, loud, Len(fed), Len(fed) + 1, 0)
             r == add_chunk(audio_buffer, chunk)
         IN  /\ audio_buffer' = r.buf
             /\ fed' = Append(fed, [n |-> n, loud |-> loud])
             /\ emits' = IF r.seg.none THEN emits
                         ELSE Append(emits, [at |-> Len(fed) + 1,
                                             ids |-> Ids(r.seg.chunks)])
    /\ UNCHANGED <<enginevars, service, servervars>>
    /\ UNCHANGED obsmsg

\* Direct calls of transcribe_segment on the engine, as any caller of the
\* WhisperASR object may make them.
EngineSegs ==
    {[none |-> FALSE, chunks |-> << >>, n |-> 16000, timestamp |-> 0],
     [none |-> FALSE, chunks |-> << >>, n |-> 48000, timestamp |-> 7]}

TranscribeCall ==
    /\ asr_processor # "None"
    /\ \E seg \in EngineSegs, env \in TranscribeEnvs :
         LET out == transcribe_segment(whisper, seg, env)
         IN  /\ whisper' = out.whisper
             /\ tr' = Observed(whisper, seg, env, out)
    /\ UNCHANGED <<bufvars, loader, service, servervars>>
    /\ UNCHANGED obsmsg

\* ------------------------------------------------------------ specifications
InitBuf ==
    /\ audio_buffer = EmptyBuffer
    /\ fed = << >>
    /\ emits = << >>

InitEngine ==
    /\ whisper = NewWhisper
    /\ loader = IdleLoader
    /\ tr = NotCalled
    /\ service = [pc |-> "init", model |-> NoModel]

InitServer ==
    /\ asr_processor = "None"
    /\ asr = [session_id |-> NoSessionId, transcripts |-> << >>]
    /\ connected_clients = << >>
    /\ active_sessions = [c \in Clients |-> NoSession]
    /\ conn = [c \in Clients |-> "open"]
    /\ peer = [c \in Clients |-> TRUE]
    /\ client_id = [c \in Clients |-> "None"]
    /\ pc = [c \in Clients |-> "recv"]
    /\ bc = [c \in Clients |-> NoBc]
    /\ inbox = [c \in Clients |-> << >>]
    /\ now = 0
    /\ stopped = {}
    /\ ev = NoEv
    /\ session_owner = << >>
    /\ saved = {}
    /\ filt = NoFilt
    /\ agg = NoAgg
    /\ mx = NoCall
    /\ ep = NoEndpoints
    /\ vad = NoVad
    /\ nmsg = 0
    /\ nchunk = 0
    /\ nutt = 0
    /\ nsess = 0
    /\ submitted = [k \in 0..MaxMsgs |-> 0]
    /\ emitted = [k \in 0..MaxMsgs |-> 0]
    /\ last_utt = << >>

Init == InitBuf /\ InitEngine /\ InitServer

\* The AudioBuffer alone.
NextBuf == Feed

SpecBuf == Init /\ [][NextBuf]_vars

\* The same buffer fed, besides, streams of chunks shorter than one VAD
\* frame: the frame loop finds no complete frame in them, so no verdict is
\* asked for and the counters stay; only such streams reach 100 chunks
\* before they reach segment_duration.
AllSmall == \A i \in 1..Len(fed) : fed[i].n = SmallChunk

FeedSmall ==
    /\ AllSmall
    /\ Len(fed) < MaxSmallFed
    /\ LET chunk == Chunk(SmallChunk, FALSE, Len(fed), Len(fed) + 1, 0)
           r == add_chunk(audio_buffer, chunk)
       IN  /\ audio_buffer' = r.buf
           /\ fed' = Append(fed, [n |-> SmallChunk, loud |-> FALSE])
           /\ emits' = IF r.seg.none THEN emits
                       ELSE Append(emits, [at |-> Len(fed) + 1,
                                           ids |-> Ids(r.seg.chunks)])
    /\ UNCHANGED <<enginevars, service, servervars>>
    /\ UNCHANGED obsmsg

NextBoundary ==
    \/ Feed
    \/ FeedSmall

SpecBoundary == Init /\ [][NextBoundary]_vars

\* The two load routines and the engine's transcribe_segment.
NextEngine ==
    \/ InitAsr
    \/ LoadProbe
    \/ LoadAttempt
    \/ LoadAssign
    \/ TranscribeCall
    \/ ServiceInit

SpecEngine == Init /\ [][NextEngine]_vars

\* The engine of a process started with or without FORCE_CPU_MODE=true.
NextForced ==
    \/ InitAsr
    \/ InitAsrForced
    \/ LoadProbe
    \/ LoadAttempt
    \/ LoadAssign
    \/ TranscribeCall

SpecForced == Init /\ [][NextForced]_vars

\* The server: startup, the load thread, and one task per connection.
Next ==
    \/ InitAsr
    \/ LoadProbe
    \/ LoadAttempt
    \/ LoadAssign
    \/ \E c \in Clients :
         \/ PeerClose(c)
         \/ Disconnect(c)
         \/ Handshake(c)
         \/ StartRecording(c)
         \/ StopRecording(c)
         \/ StopFinish(c)
         \/ AudioChunk(c)
         \/ BroadcastStep(c)

Spec == Init /\ [][Next]_vars

\* ------------------------------------------- post-decoding filter (texts)
\* A text is the sequence of its characters.

\* WhisperASR.UNWANTED_PHRASES
UNWANTED_PHRASES ==
    {<<"s", "u", "b", "s", "c", "r", "i", "b", "e">>,
     <<"b", "e", "l", "l", " ", "i", "c", "o", "n">>,
     <<"c", "h", "a", "n", "n", "e", "l">>,
     <<"l", "i", "k", "e", " ", "a", "n", "d", " ", "s", "h", "a", "r", "e">>,
     <<"t", "h", "a", "n", "k", "s", " ", "f", "o", "r", " ", "w", "a", "t", "c", "h", "i", "n", "g">>,
     <<"f", "o", "l", "l", "o", "w", " ", "m", "e", " ", "o", "n">>,
     <<"s", "o", "c", "i", "a", "l", " ", "m", "e", "d", "i", "a">>,
     <<"i", "n", "s", "t", "a", "g", "r", "a", "m">>,
     <<"t", "w", "i", "t", "t", "e", "r">>,
     <<"f", "a", "c", "e", "b", "o", "o", "k">>,
     <<"d", "o", "n", "'", "t", " ", "f", "o", "r", "g", "e", "t", " ", "t", "o">>,
     <<"s", "m", "a", "s", "h", " ", "t", "h", "a", "t">>,
     <<"n", "o", "t", "i", "f", "i", "c", "a", "t", "i", "o", "n">>,
     <<"c", "o", "m", "m", "e", "n", "t", " ", "b", "e", "l", "o", "w">>}

\* str.lower on the letters that occur in capitals below.
Lowercase == ("E" :> "e") @@ ("H" :> "h") @@ ("P" :> "p") @@ ("S" :> "s")

lower(text) ==
    [i \in 1..Len(text) |->
        IF text[i] \in DOMAIN Lowercase THEN Lowercase[text[i]] ELSE text[i]]

\* str.strip: leading and trailing whitespace removed.
RECURSIVE lstrip(_)
lstrip(text) ==
    IF text # << >> /\ Head(text) = " " THEN lstrip(Tail(text)) ELSE text

RECURSIVE rstrip(_)
rstrip(text) ==
    IF text # << >> /\ text[Len(text)] = " "
    THEN rstrip(SubSeq(text, 1, Len(text) - 1))
    ELSE text

strip(text) == rstrip(lstrip(text))

\* str.split(): the maximal runs of non-whitespace; i is the position read
\* next and word the run read so far.
RECURSIVE split_from(_, _, _)
split_from(text, i, word) ==
    IF i > Len(text)
    THEN IF word = << >> THEN << >> ELSE <<word>>
    ELSE IF text[i] = " "
    THEN (IF word = << >> THEN << >> ELSE <<word>>)
         \o split_from(text, i + 1, << >>)
    ELSE split_from(text, i + 1, Append(word, text[i]))

split(text) == split_from(text, 1, << >>)

\* " ".join(words)
RECURSIVE join(_)
join(words) ==
    IF words = << >> THEN << >>
    ELSE IF Len(words) = 1 THEN words[1]
    ELSE words[1] \o <<" ">> \o join(Tail(words))

\* phrase in text (substring)
phrase_in(phrase, text) ==
    \E i \in 1..(Len(text) - Len(phrase) + 1) :
        SubSeq(text, i, i + Len(phrase) - 1) = phrase

\* str.isdigit
isdigit(text) ==
    /\ text # << >>
    /\ \A i \in 1..Len(text) :
         text[i] \in {"0", "1", "2", "3", "4", "5", "6", "7", "8", "9"}

\* WhisperASR.clean_text: the words that are not themselves an unwanted
\* phrase, joined by single spaces.
clean_text(text) ==
    LET words == split(text)
        keep(w) == lower(w) \notin UNWANTED_PHRASES
    IN  join(SelectSeq(words, keep))

\* any(phrase in text_lower for phrase in self.UNWANTED_PHRASES)
is_hallucination(cleaned_text) ==
    \E phrase \in UNWANTED_PHRASES : phrase_in(phrase, lower(cleaned_text))

\* avg_logprob is counted in tenths: min_confidence_threshold = -1.0
min_confidence_threshold == -10

\* One entry of transcript_segments.
TranscriptSegment(text, confidence) == [text |-> text, confidence |-> confidence]

\* The loop of transcribe_segment over the segments the model returned:
\* low confidence is skipped, the text is cleaned, and a cleaned text longer
\* than three characters that holds no unwanted phrase is kept.
RECURSIVE transcript_segments(_)
transcript_segments(segs) ==
    IF segs = << >> THEN << >>
    ELSE LET seg == Head(segs)
             cleaned_text == clean_text(strip(seg.text))
             kept == /\ ~(seg.avg_logprob < min_confidence_threshold)
                     /\ cleaned_text # << >>
                     /\ Len(cleaned_text) > 3
                     /\ ~is_hallucination(cleaned_text)
         IN  (IF kept THEN <<TranscriptSegment(cleaned_text, seg.avg_logprob)>>
              ELSE << >>)
             \o transcript_segments(Tail(segs))

\* The same loop in the CPU retry of transcribe_segment: the confidence must
\* exceed -1.0 and the cleaned text be longer than three characters; the
\* phrases are not looked for.
RECURSIVE transcript_segments_fallback(_)
transcript_segments_fallback(segs) ==
    IF segs = << >> THEN << >>
    ELSE LET seg == Head(segs)
             text == clean_text(strip(seg.text))
             kept == seg.avg_logprob > min_confidence_threshold /\ Len(text) > 3
         IN  (IF kept THEN <<TranscriptSegment(text, seg.avg_logprob)>>
              ELSE << >>)
             \o transcript_segments_fallback(Tail(segs))

\* " ".join([s["text"] for s in transcript_segments if s["text"]])
full_text(segments) ==
    LET nonempty(s) == s.text # << >>
        kept == SelectSeq(segments, nonempty)
    IN  join([i \in 1..Len(kept) |-> kept[i].text])

\* A Transcript's segments as input of the filter.
AsModelOutput(segments) ==
    [i \in 1..Len(segments) |->
        [text |-> segments[i].text, avg_logprob |-> segments[i].confidence]]

\* Texts a decoded segment may carry.
SegTexts ==
    {<<" ", "H", "e", "l", "l", "o", " ", "t", "h", "e", "r", "e">>,
     <<"s", "u", "b", "s", "c", "r", "i", "b", "e">>,
     <<"P", "l", "e", "a", "s", "e", " ", "S", "u", "b", "s", "c", "r", "i", "b", "e", " ", "n", "o", "w">>,
     <<"b", "e", "l", "l", " ", "i", "c", "o", "n">>,
     <<"1", "2", "3", "4", "5">>,
     <<"o", "k">>,
     <<"r", "i", "n", "g", " ", "t", "h", "e", " ", "b", "e", "l", "l">>,
     <<"i", "c", "o", "n", " ", "s", "h", "o", "p">>}

\* avg_logprob values, in tenths: -1.5, -1.0, -0.5
LogProbs == {-15, -10, -5}

ModelSegs == [text : SegTexts, avg_logprob : LogProbs]

\* What model.transcribe may return: up to MaxSegs segments.
ModelOutputs ==
    UNION {[1..n -> ModelSegs] : n \in 0..MaxSegs}

\* transcribe_segment from the model's segments to the Transcript, on the
\* normal path and in the CPU retry.
Decode ==
    /\ filt = NoFilt
    /\ \E raw \in ModelOutputs, path \in {"normal", "cpu_fallback"} :
         LET segments == IF path = "normal" THEN transcript_segments(raw)
                         ELSE transcript_segments_fallback(raw)
         IN  filt' = [NoFilt EXCEPT !.path = path, !.raw = raw,
                                    !.segments = segments,
                                    !.text = full_text(segments)]
    /\ UNCHANGED <<bufvars, enginevars, service, servervars, ev,
                   session_owner, saved, agg, mx, ep, vad>>

\* The filter of transcribe_segment applied to the Transcript it returned.
Refilter ==
    /\ filt.path # "None"
    /\ ~filt.refiltered
    /\ LET again == transcript_segments(AsModelOutput(filt.segments))
       IN  filt' = [filt EXCEPT !.again = again,
                                !.again_text = full_text(again),
                                !.refiltered = TRUE]
    /\ UNCHANGED <<bufvars, enginevars, service, servervars, ev,
                   session_owner, saved, agg, mx, ep, vad>>

NextFilter == Decode \/ Refilter

SpecFilter == Init /\ [][NextFilter]_vars

\* ------------------------------------------ transcript aggregation on stop
\* char.isalpha() on the characters that occur in the texts of this model.
isalpha(ch) ==
    ch \in {"a", "b", "c", "d", "e", "f", "g", "h", "i", "j", "k", "l", "m",
            "n", "o", "p", "q", "r", "s", "t", "u", "v", "w", "x", "y", "z"}
       \cup DOMAIN Lowercase

\* text.startswith(prefix)
startswith(text, prefix) ==
    Len(text) >= Len(prefix) /\ SubSeq(text, 1, Len(prefix)) = prefix

\* The texts handle_stop_recording rejects as a whole: "..." and "null".
InvalidTexts == {<<".", ".", ".">>, <<"n", "u", "l", "l">>}

\* The prefixes handle_stop_recording rejects: "error", "failed", "timeout".
ErrorMarkers == {<<"e", "r", "r", "o", "r">>, <<"f", "a", "i", "l", "e", "d">>, <<"t", "i", "m", "e", "o", "u", "t">>}

\* The quality validation without the comparison with "..." and "null".
valid_transcript_unmarked(text) ==
    /\ text # << >>
    /\ Len(text) >= 3
    /\ ~isdigit(text)
    /\ \A marker \in ErrorMarkers : ~startswith(lower(text), marker)

\* The quality validation of handle_stop_recording, on the stripped text.
valid_transcript(text) ==
    /\ text # << >>
    /\ Len(text) >= 3
    /\ ~isdigit(text)
    /\ text \notin InvalidTexts
    /\ \A marker \in ErrorMarkers : ~startswith(lower(text), marker)

\* The loop over session["transcripts"]: the valid entries are collected and
\* their stripped texts accumulated, each followed by a space.
RECURSIVE validate(_, _, _)
validate(transcripts, valid_transcripts, original_transcript) ==
    IF transcripts = << >>
    THEN [valid_transcripts |-> valid_transcripts,
          original_transcript |-> original_transcript]
    ELSE LET text == strip(Head(transcripts))
         IN  IF valid_transcript(text)
             THEN validate(Tail(transcripts),
                           Append(valid_transcripts, Head(transcripts)),
                           original_transcript \o text \o <<" ">>)
             ELSE validate(Tail(transcripts), valid_transcripts,
                           original_transcript)

\* original_transcript after the clean-up: stripped, and emptied when it
\* has ten characters or more and none of them is alphabetic.
cleaned_original(original_transcript) ==
    LET text == strip(original_transcript)
    IN  IF Len(text) < 10 THEN text
        ELSE IF ~\E i \in 1..Len(text) : isalpha(text[i]) THEN << >>
        ELSE text

\* quality_metrics["transcript_quality"] with the two thresholds included
\* in the higher tier.
transcript_quality_inclusive(length) ==
    IF length >= 100 THEN "high" ELSE IF length >= 50 THEN "medium" ELSE "low"

\* quality_metrics["transcript_quality"]
transcript_quality(length) ==
    IF length > 100 THEN "high" ELSE IF length > 50 THEN "medium" ELSE "low"

\* The aggregated part of the recording_stopped data for a transcript log.
aggregate(transcripts) ==
    LET v == validate(transcripts, << >>, << >>)
        original_transcript == cleaned_original(v.original_transcript)
    IN  [transcripts |-> transcripts,
         valid_transcripts |-> v.valid_transcripts,
         original_transcript |-> original_transcript,
         total_transcript_segments |-> Len(transcripts),
         valid_transcript_segments |-> Len(v.valid_transcripts),
         original_transcript_length |-> Len(original_transcript),
         transcript_quality |-> transcript_quality(Len(original_transcript)),
         done |-> TRUE]

\* A text of n letters.
Letters(n) == [i \in 1..n |-> "a"]

\* Texts a session log may hold: each is the text of a Transcript, more
\* than three characters without surrounding whitespace.
LogTexts ==
    {<<"n", "u", "l", "l">>,
     <<"n", "u", "l", "l", "i", "f", "y", " ", "i", "t">>,
     <<"1", "2", "3", "4", "5">>,
     <<"E", "r", "r", "o", "r", " ", "i", "n", " ", "a", "u", "d", "i", "o">>,
     <<"1", "2", "3", "4", " ", "5", "6", "7", "8", " ", "9", "0", "1", "2">>,
     <<"h", "e", "l", "l", "o", " ", "t", "h", "e", "r", "e">>,
     Letters(49), Letters(50), Letters(51)}

\* The transcript logs a stopped session may have.
SessionLogs == UNION {[1..n -> LogTexts] : n \in 0..MaxLog}

\* handle_stop_recording from the session's log to the quality metrics.
Aggregate ==
    /\ ~agg.done
    /\ \E transcripts \in SessionLogs : agg' = aggregate(transcripts)
    /\ UNCHANGED <<bufvars, enginevars, service, servervars, ev,
                   session_owner, saved, filt, mx, ep, vad>>

NextAggregate == Aggregate

\* The frame loop of add_chunk on one chunk: counters as earlier chunks
\* left them, a chunk of some complete frames and perhaps a tail shorter
\* than a frame, any verdict for each frame.
Traces == UNION {[1..k -> Verdicts] : k \in 0..MaxFrames}
CountersBefore ==
    {[EmptyBuffer EXCEPT !.speech_frames = s, !.silence_frames = q] :
        s \in {0, 2}, q \in {0, 3}}
TailSamples == {0, 200}

VadLoop ==
    /\ ~vad.done
    /\ \E before \in CountersBefore, trace \in Traces, tail \in TailSamples :
         LET n == Len(trace) * frame_samples + tail
         IN  vad' = [before |-> before, n |-> n, trace |-> trace,
                     after |-> frame_loop(before, n, trace, 0),
                     done |-> TRUE]
    /\ UNCHANGED <<bufvars, enginevars, service, servervars, ev,
                   session_owner, saved, filt, agg, mx, ep>>

NextVad == VadLoop

SpecVad == Init /\ [][NextVad]_vars

SpecAggregate == Init /\ [][NextAggregate]_vars

\* ------------------------------- one transcribe_segment call, step by step
\* The event loop thread runs the handlers of all connections and, inside
\* handle_audio_chunk, transcribe_segment: an async def without an await,
\* so the thread stays in it from the call to the return. The loader thread
\* of _load_model runs beside it; both take self._model_lock.
LoopIdle == mx.pc = "idle"

other_vars_of_call ==
    <<bufvars, loader, tr, service, servervars, ev, session_owner, saved,
      filt, agg, ep, vad>>

\* process_audio_chunk got a segment from add_chunk while some session is
\* Recording and the gate of handle_audio_chunk is open; it calls
\* transcribe_segment.
CallTranscribe ==
    /\ LoopIdle
    /\ mx.calls < MaxCalls
    /\ engine_ready
    /\ \E c \in Clients : active_sessions[c] # NoSession
    /\ \E env \in TranscribeEnvs :
         mx' = [mx EXCEPT !.pc = "is_ready", !.env = env, !.calls = @ + 1]
    /\ UNCHANGED <<whisper, other_vars_of_call>>

\* is_ready() takes the lock for the test; the temporary WAV file is
\* written; then the with-block of the first transcription is entered.
LockForTranscribe ==
    /\ mx.pc = "is_ready"
    /\ mx.lock = "None"
    /\ mx' = [mx EXCEPT !.pc = IF is_ready(whisper) THEN "transcribe" ELSE "idle",
                        !.lock = IF is_ready(whisper) THEN "loop" ELSE "None"]
    /\ UNCHANGED <<whisper, other_vars_of_call>>

\* Inside the with-block: model.transcribe and the loop over its segments.
\* The block is left by its end or by the exception; either releases the
\* lock.
Transcribe ==
    /\ mx.pc = "transcribe"
    /\ mx' = [mx EXCEPT !.lock = "None",
                        !.pc = IF mx.env.first \in {"text", "empty"}
                               THEN "idle"
                               ELSE IF is_cuda_error(mx.env.first)
                                       /\ whisper.device = "cuda"
                               THEN "lock_reload"
                               ELSE "idle"]
    /\ UNCHANGED <<whisper, other_vars_of_call>>

\* The except branch enters the with-block of the reload.
LockForReload ==
    /\ mx.pc = "lock_reload"
    /\ mx.lock = "None"
    /\ mx' = [mx EXCEPT !.pc = "reload", !.lock = "loop"]
    /\ UNCHANGED <<whisper, other_vars_of_call>>

\* self.model = WhisperModel(..., device="cpu") under the lock; a failure
\* leaves the block for the inner except, which ends the call.
ReloadModel ==
    /\ mx.pc = "reload"
    /\ whisper' = IF mx.env.reload
                  THEN [whisper EXCEPT
                          !.model = WhisperModel(whisper.model_size, "cpu")]
                  ELSE whisper
    /\ mx' = [mx EXCEPT !.lock = "None",
                        !.pc = IF mx.env.reload THEN "reload_config" ELSE "idle"]
    /\ UNCHANGED other_vars_of_call

\* self.device = "cpu"; self.compute_type = "int8", after the with-block.
ReloadConfig ==
    /\ mx.pc = "reload_config"
    /\ whisper' = [whisper EXCEPT !.device = "cpu", !.compute_type = "int8"]
    /\ mx' = [mx EXCEPT !.pc = "lock_retry"]
    /\ UNCHANGED other_vars_of_call

\* The with-block of the retry is entered.
LockForRetry ==
    /\ mx.pc = "lock_retry"
    /\ mx.lock = "None"
    /\ mx' = [mx EXCEPT !.pc = "retry", !.lock = "loop"]
    /\ UNCHANGED <<whisper, other_vars_of_call>>

\* segments, info = self.model.transcribe(...) is the whole with-block of
\* the retry: the lock is released when the call has returned its segment
\* generator (or has raised).
RetryTranscribe ==
    /\ mx.pc = "retry"
    /\ mx' = [mx EXCEPT !.lock = "None",
                        !.pc = IF mx.env.retry = "error" THEN "idle"
                               ELSE "consume"]
    /\ UNCHANGED <<whisper, other_vars_of_call>>

\* for seg in segments: the retry's segments are decoded and filtered, and
\* the Transcript is returned.
ConsumeRetry ==
    /\ mx.pc = "consume"
    /\ mx' = [mx EXCEPT !.pc = "idle"]
    /\ UNCHANGED <<whisper, other_vars_of_call>>

\* A handler of the receive loops, run by the event loop thread when it is
\* not inside another handler.
Handle(c) ==
    /\ LoopIdle
    /\ \/ Handshake(c)
       \/ StartRecording(c)
       \/ StopRecording(c)
       \/ StopFinish(c)

NextCall ==
    \/ InitAsr
    \/ LoadProbe
    \/ LoadAttempt
    \/ LoadAssign
    \/ CallTranscribe
    \/ LockForTranscribe
    \/ Transcribe
    \/ LockForReload
    \/ ReloadModel
    \/ ReloadConfig
    \/ LockForRetry
    \/ RetryTranscribe
    \/ ConsumeRetry
    \/ \E c \in Clients : Handle(c)

SpecCall == Init /\ [][NextCall]_vars

\* -------------------------- websocket_endpoint with ids the clients choose
\* "if not client_id": a connection that sent no handshake is registered
\* under an id made from the clock.
identify(e, w, t) ==
    IF e.client_id[w] # NoId THEN e
    ELSE [e EXCEPT !.client_id[w] = AutoId(t),
                   !.connected_clients[AutoId(t)] = w]

other_vars_of_endpoint ==
    <<bufvars, enginevars, service, asr_processor, asr, connected_clients,
      active_sessions, connvars, stopped, countvars, ev, session_owner,
      saved, filt, agg, mx, vad>>

\* A handshake message: the id in it, or one made from the clock when the
\* message has none, replaces the task's client_id and is registered.
EndpointHandshake(w) ==
    /\ ep.open[w]
    /\ ep.msgs < MaxEpMsgs
    /\ \E id \in PresentedIds \cup {AutoId(now)} :
         ep' = [ep EXCEPT !.client_id[w] = id,
                          !.connected_clients[id] = w,
                          !.msgs = @ + 1]
    /\ UNCHANGED <<now, other_vars_of_endpoint>>

\* start_recording: handle_start_recording stores a new session under the
\* task's client_id, whatever was stored there.
EndpointStart(w) ==
    /\ ep.open[w]
    /\ ep.msgs < MaxEpMsgs
    /\ LET e == identify(ep, w, now)
           id == e.client_id[w]
           sid == SessionId(now, id)
       IN  ep' = [e EXCEPT !.active_sessions[id] = EpSession(sid, w),
                           !.issued = Append(@, sid),
                           !.msgs = @ + 1]
    /\ UNCHANGED <<now, other_vars_of_endpoint>>

\* stop_recording: handle_stop_recording returns when the client_id has no
\* session; otherwise it deletes the session after the acknowledgment, or
\* leaves it when the acknowledgment could not be sent.
EndpointStop(w) ==
    /\ ep.open[w]
    /\ ep.msgs < MaxEpMsgs
    /\ LET e == identify(ep, w, now)
           id == e.client_id[w]
       IN  \E sent \in BOOLEAN :
             ep' = [e EXCEPT !.active_sessions[id] =
                                IF sent THEN NoEpSession ELSE @,
                             !.msgs = @ + 1]
    /\ UNCHANGED <<now, other_vars_of_endpoint>>

\* Any other message (audio_chunk, video_frame, test, unknown types) with
\* respect to the registry: the connection is identified.
EndpointOther(w) ==
    /\ ep.open[w]
    /\ ep.msgs < MaxEpMsgs
    /\ ep' = [identify(ep, w, now) EXCEPT !.msgs = @ + 1]
    /\ UNCHANGED <<now, other_vars_of_endpoint>>

\* WebSocketDisconnect leaves the loop; the finally block deletes the
\* entries stored under the task's client_id.
EndpointClose(w) ==
    /\ ep.open[w]
    /\ LET id == ep.client_id[w]
       IN  ep' = IF id = NoId THEN [ep EXCEPT !.open[w] = FALSE]
                 ELSE [ep EXCEPT !.open[w] = FALSE,
                                 !.connected_clients[id] = "None",
                                 !.active_sessions[id] = NoEpSession]
    /\ UNCHANGED <<now, other_vars_of_endpoint>>

\* A second passes on the clock of time.time().
Tick ==
    /\ now < MaxNow
    /\ now' = now + 1
    /\ UNCHANGED <<ep, other_vars_of_endpoint>>

NextEndpoint ==
    \/ Tick
    \/ \E w \in Clients :
         \/ EndpointHandshake(w)
         \/ EndpointOther(w)
         \/ EndpointStart(w)
         \/ EndpointStop(w)
         \/ EndpointClose(w)

SpecEndpoint == Init /\ [][NextEndpoint]_vars

\* The receive loops of two connections whose peers stay: every kind of
\* inbound message, malformed ones included, with the engine loading in
\* the background.
NextRecv ==
    \/ InitAsr
    \/ LoadProbe
    \/ LoadAttempt
    \/ LoadAssign
    \/ \E c \in Clients :
         \/ Handshake(c)
         \/ Malformed(c)
         \/ StartRecording(c)
         \/ StopRecording(c)
         \/ StopFinish(c)
         \/ AudioChunk(c)
         \/ BroadcastStep(c)

SpecRecv == Init /\ [][NextRecv]_vars

\* ------------------------------------------------ properties of AudioBuffer
\* Samples fed after the last call of add_chunk that returned a segment.
RECURSIVE FedSamples(_, _)
FedSamples(from, to) ==
    IF from > to THEN 0 ELSE fed[from].n + FedSamples(from + 1, to)

LastEmitAt == IF emits = << >> THEN 0 ELSE emits[Len(emits)].at

UnemittedSamples == FedSamples(LastEmitAt + 1, Len(fed))

\* The VAD boundary cannot be met by a stream without a speech frame.
AllSilent == \A i \in 1..Len(fed) : ~fed[i].loud

\* C7: whatever the stream, and so for every stream that never meets the VAD
\* boundary, after each add_chunk the audio fed since the last emitted
\* Utterance is shorter than max_buffer_duration, and it is what the buffer
\* holds.
C7_OverflowGuarantee ==
    /\ UnemittedSamples < max_buffer_duration * sample_rate
    /\ SumSamples(audio_buffer.buffer) = UnemittedSamples

\* C7 witness: a stream of silence only whose last chunk brings the buffer
\* to max_buffer_duration, and that call emitted.
C7_Witness ==
    /\ Len(fed) >= 2
    /\ AllSilent
    /\ fed[Len(fed)].n = max_buffer_duration * sample_rate
    /\ LastEmitAt = Len(fed)
    /\ audio_buffer = EmptyBuffer

\* The reference scenario: 1-second and 0.6-second chunks at 16 kHz.
Silent1s == [n |-> 16000, loud |-> FALSE]
Loud1s == [n |-> 16000, loud |-> TRUE]
Silent600ms == [n |-> 9600, loud |-> FALSE]

FedStartsWith(p) == Len(fed) >= Len(p) /\ SubSeq(fed, 1, Len(p)) = p

EmitsUpTo(k) == SelectSeq(emits, LAMBDA e : e.at <= k)

Emit(at, ids) == [at |-> at, ids |-> ids]

TranscribeFailed ==
    /\ tr.called
    /\ tr.ready_before
    /\ tr.env.first \in {"cuda_error", "other_error"}

\* ... with an accelerator-fault signature while the device was the
\* accelerator.
AcceleratorFault ==
    /\ TranscribeFailed
    /\ is_cuda_error(tr.env.first)
    /\ tr.device_before = "cuda"

\* Empty text, the Utterance's bounds and an error marker.
IsErrorResult(result, seg) ==
    /\ result.kind = "return"
    /\ result.text = ""
    /\ result.start = seg.timestamp
    /\ result.end = seg.timestamp + Duration(seg.n)
    /\ result.error # "None"

\* C4: on an accelerator fault with the accelerator active, transcribe_segment
\* reloads onto CPU once and, when the reload succeeds, retries the Utterance
\* exactly once, returning the retry's result; when the reload or the retry
\* fails, or the fault is not an accelerator fault, it returns the error
\* result without a reload or retry of its own; no call raises.
C4_TranscribeFallback ==
    tr.called =>
        /\ tr.result.kind = "return"
        /\ AcceleratorFault =>
              /\ tr.reloads = 1
              /\ tr.calls = IF tr.env.reload THEN 2 ELSE 1
              /\ tr.env.reload => whisper.device = "cpu"
              /\ (tr.env.reload /\ tr.env.retry # "error") =>
                    /\ tr.result.text = FilteredText(tr.env.retry)
                    /\ tr.result.error = "None"
              /\ (~tr.env.reload \/ tr.env.retry = "error") =>
                    IsErrorResult(tr.result, tr.seg)
        /\ (TranscribeFailed /\ ~AcceleratorFault) =>
              /\ tr.reloads = 0
              /\ tr.calls = 1
              /\ IsErrorResult(tr.result, tr.seg)

\* C4 witness: an accelerator fault whose reload worked and whose retry
\* failed, answered with the error result.
C4_Witness ==
    /\ AcceleratorFault
    /\ tr.env.reload
    /\ tr.env.retry = "error"
    /\ tr.calls = 2
    /\ IsErrorResult(tr.result, tr.seg)
    /\ whisper.device = "cpu"

\* The entry of the preference order the load thread is at.
LoaderEntry == fallback_models(loader.cuda_available)[loader.idx]

\* C5: both load routines try their combinations in order and stop at the
\* first success, which becomes the active configuration; until an attempt
\* succeeds the engine is not ready; when every attempt fails the engine is
\* not ready, and no load routine lets an exception escape.
C5_LoadFallback ==
    /\ loader.pc \in {"probe", "attempt"} => ~is_ready(whisper)
    /\ (loader.pc = "done" /\ loader.loaded /\ ~tr.called) =>
          get_config_info(whisper) =
             [model_size |-> LoaderEntry[1], device |-> LoaderEntry[2],
              compute_type |-> LoaderEntry[3], is_ready |-> TRUE]
    /\ (loader.pc = "done" /\ ~loader.loaded) =>
          /\ loader.idx = Len(fallback_models(loader.cuda_available))
          /\ ~is_ready(whisper)
    /\ service.pc # "raised"

\* The accelerator is unusable at initialization: the validation failed, or
\* the load on the accelerator (the first entry) failed.
AcceleratorUnusable ==
    \/ ~loader.cuda_available
    \/ loader.cuda_available /\ loader.idx > 1

\* C6: when the accelerator is unusable at initialization and a CPU load
\* succeeds, the configuration reported once the load thread is through has
\* device = cpu and is_ready = true.
C6_FallbackCorrectness ==
    (loader.pc = "done" /\ AcceleratorUnusable /\ loader.loaded) =>
        /\ get_config_info(whisper).device = "cpu"
        /\ get_config_info(whisper).is_ready

\* C6 witness: validation passed, the load on the accelerator failed, the
\* CPU load succeeded.
C6_Witness ==
    /\ loader.pc = "done"
    /\ loader.cuda_available
    /\ loader.idx = 2
    /\ loader.loaded
    /\ get_config_info(whisper).device = "cpu"

\* --------------------------------------------------- properties of the server
\* C1: for every session, the samples of the Utterances emitted for it plus
\* the samples of its chunks still in the buffer equal the samples it
\* submitted; no chunk is dropped, whether the engine is ready or not.
C1_NoAudioLoss ==
    \A k \in 1..nsess :
        submitted[k] = emitted[k] + SamplesOf(audio_buffer.buffer, k)

Increasing(seq) == \A i, j \in 1..Len(seq) : i < j => seq[i] < seq[j]

\* Utterance numbers, in order, of a session log and of the transcripts of
\* session k delivered to one peer.
LogUids(log) == [i \in 1..Len(log) |-> log[i].uid]

DeliveredUids(r, k) ==
    LET ms == SelectSeq(inbox[r],
                        LAMBDA m : m.type = "transcript" /\ m.by = k)
    IN  [i \in 1..Len(ms) |-> ms[i].uid]

\* C2: the transcripts of one session are appended to its log and delivered
\* to every peer in the order their Utterances were emitted, and a transcript
\* is in the log before it is delivered; while the transcript of one
\* Utterance is being broadcast no transcript of a later Utterance of that
\* session is out, whatever the other connections do meanwhile.
C2_Ordering ==
    /\ \A c \in Clients : Increasing(LogUids(active_sessions[c].transcripts))
    /\ \A r \in Clients, k \in 1..nsess : Increasing(DeliveredUids(r, k))
    /\ \A c, r \in Clients :
          LET session == active_sessions[c]
          IN  session # NoSession =>
                 Range(DeliveredUids(r, session.serial))
                    \subseteq Range(LogUids(session.transcripts))
    /\ \A c, r \in Clients :
          pc[c] = "bcast" =>
             \A u \in Range(DeliveredUids(r, bc[c].msg.by)) : u <= bc[c].msg.uid

\* C2 witness: a session with two transcripts in its log, both delivered to
\* the other connection.
C2_Witness ==
    \E c, r \in Clients :
        /\ c # r
        /\ Len(active_sessions[c].transcripts) = 2
        /\ Len(DeliveredUids(r, active_sessions[c].serial)) = 2

\* C3: every emitted Utterance holds chunks of one session only.
C3_BufferIsolation ==
    \A i, j \in 1..Len(last_utt) : last_utt[i].owner = last_utt[j].owner

\* A step in which handle_start_recording created c's session.
StartHandled(c) ==
    /\ nsess' = nsess + 1
    /\ active_sessions'[c].serial = nsess'

\* C9: right after start_recording is handled the buffer holds no audio and
\* its speech and silence counters are zero, the session's transcript log is
\* empty, and the recording_started reply carries the new session_id and the
\* engine's readiness.
C9_FreshStart ==
    [][\A c \in Clients :
          StartHandled(c) =>
             /\ audio_buffer'.buffer = << >>
             /\ audio_buffer'.speech_frames = 0
             /\ audio_buffer'.silence_frames = 0
             /\ active_sessions'[c].transcripts = << >>
             /\ Sendable(c) =>
                   inbox'[c] =
                      Append(inbox[c],
                             Msg("recording_started",
                                 active_sessions'[c].session_id, engine_ready,
                                 0, "", nsess', << >>))]_vars

\* C10: once stop_recording has been handled for a session, its peer has got
\* exactly one recording_stopped message, carrying the session's id and its
\* transcripts, and the client has no active session.
C10_StopRecording ==
    \A s \in stopped :
        LET ms == SelectSeq(inbox[s.c],
                            LAMBDA m : m.type = "recording_stopped"
                                       /\ m.by = s.k)
        IN  /\ Len(ms) = 1
            /\ \A i \in 1..Len(ms) :
                  ms[i].session_id = s.sid /\ ms[i].log = s.log
            /\ active_sessions[s.c].serial # s.k

\* ------------------------------------------------------------------ C11

\* A receive loop left with a session still Recording.
DisconnectedRecording(c) ==
    /\ conn[c] = "open"
    /\ conn'[c] = "closed"
    /\ active_sessions[c] # NoSession

\* C11: a disconnect while Recording cleans up as stop_recording does: the
\* session is removed and the transcript files of its log are written, only
\* the recording_stopped acknowledgment is not sent.
C11_DisconnectCleanup ==
    [][\A c \in Clients :
         DisconnectedRecording(c) =>
           /\ active_sessions'[c] = NoSession
           /\ Saved(active_sessions[c]) \in saved'
           /\ inbox'[c] = inbox[c]]_vars

\* ------------------------------------------------------------------ C12

\* Session k is over: its stop_recording handler removed it, or the
\* connection that started it has left its receive loop.
Ended(k) ==
    \/ /\ \E s \in stopped : s.k = k
       /\ \A c \in Clients : active_sessions[c].serial # k
    \/ conn[session_owner[k]] = "closed"

\* A transcript was produced in this step (process_audio_chunk returned one).
TranscriptProduced == Len(asr'.transcripts) = Len(asr.transcripts) + 1

\* C12: once a session is stopped or its connection is gone, no transcript
\* produced from audio that session submitted is logged or broadcast.
C12_Cancellation ==
    [][TranscriptProduced =>
         \A i \in 1..Len(last_utt') : ~Ended(last_utt'[i].owner)]_vars

\* ------------------------------------------------------------------ C13

\* The transcript message produced in this step.
ProducedMsg == asr'.transcripts[Len(asr'.transcripts)]

\* The log of c's session grew by one entry in this step.
LogGrew(c) ==
    /\ active_sessions[c] # NoSession
    /\ active_sessions'[c] # NoSession
    /\ Len(active_sessions'[c].transcripts) =
         Len(active_sessions[c].transcripts) + 1

\* C13: a transcript is appended to the session's log exactly when it is
\* broadcast (the text is non-empty), and the broadcast is made for that
\* session: the message carries the session_id of the session whose log
\* received it, so a session's log and its broadcasts are one sequence.
C13_LogEqualsBroadcasts ==
    [][/\ TranscriptProduced <=> \E c \in Clients : LogGrew(c)
       /\ \A c \in Clients :
            LogGrew(c) =>
              /\ ProducedMsg.text # ""
              /\ ProducedMsg.session_id = active_sessions[c].session_id
              /\ connected_clients' # << >> =>
                   /\ pc'[c] = "bcast"
                   /\ bc'[c].msg = ProducedMsg]_vars

\* ------------------------------------------------------------------ C14

\* broadcast_to_all of c's handler returns in this step.
BroadcastReturns(c) == pc[c] = "bcast" /\ pc'[c] = "recv"

\* C14: a broadcast ends only after a send was attempted on every connection
\* that was registered when it began, also when connections register or
\* are removed while it is suspended on a send.
C14_FanOut ==
    [][\A c \in Clients :
         BroadcastReturns(c) => bc[c].i = bc[c].size]_vars

\* ------------------------------------------------------------------ C15

\* The receive loop of c dispatches a stop_recording or an audio_chunk in
\* this step while c has no session.
IgnoredMessage(c) ==
    /\ nmsg' = nmsg + 1
    /\ ev' \in {Ev(c, "stop_recording"), Ev(c, "audio_chunk")}
    /\ active_sessions[c] = NoSession

\* Sessions, buffer, engine, logs, files and outboxes are as they were.
NothingHandled ==
    UNCHANGED <<active_sessions, audio_buffer, asr, whisper, loader, inbox,
                saved, stopped, conn, pc, bc, nchunk, nutt, nsess>>

\* C15: an audio_chunk or stop_recording from a client without a session
\* changes no state, the registry included, and sends no message.
C15_UnknownSession ==
    [][\A c \in Clients :
         IgnoredMessage(c) =>
           NothingHandled /\ UNCHANGED connected_clients]_vars

\* C15 as the code has it: sessions, buffer, logs and outboxes are left
\* alone and no message is sent, but a connection that has not identified
\* itself yet is registered by the receive loop before the dispatch; the
\* registry is unchanged only for a connection that is already identified.
C15_UnknownSessionAmended ==
    [][\A c \in Clients :
         IgnoredMessage(c) =>
           /\ NothingHandled
           /\ client_id'[c] = c
           /\ connected_clients' =
                IF client_id[c] # "None" THEN connected_clients
                ELSE Append(connected_clients, c)]_vars

\* A second stop_recording of c1 after its successful stop, from a
\* connection that never sent a handshake.
C15_Witness ==
    /\ ev = Ev("c1", "stop_recording")
    /\ nmsg = 3
    /\ nsess = 1
    /\ \E s \in stopped : s.c = "c1"
    /\ active_sessions["c1"] = NoSession
    /\ pc["c1"] = "recv"
    /\ Len(inbox["c1"]) = 2
    /\ client_id["c2"] = "None"

\* ------------------------------------------------------------------ C16

\* The receive loop of c reads a malformed message in this step.
MalformedMessage(c) ==
    /\ nmsg' = nmsg + 1
    /\ \E kind \in MalformedKinds : ev' = Ev(c, kind)

\* C16: every malformed message is answered with an error event, and the
\* connection stays open with its registry entry and session state and goes
\* on receiving.
C16_MalformedAnswered ==
    [][\A c \in Clients :
         MalformedMessage(c) =>
           /\ inbox'[c] = Append(inbox[c], error_event)
           /\ conn'[c] = "open"
           /\ pc'[c] = "recv"
           /\ UNCHANGED <<connected_clients, active_sessions>>]_vars

\* ------------------------------------------------------------------ C17

\* No processor yet, or its model is not loaded (still loading, or every
\* attempt failed).
ModelUnavailable == asr_processor = "None" \/ whisper.model = NoModel

\* The receive loop of c dispatches a message of this type in this step.
Dispatched(c, type) == nmsg' = nmsg + 1 /\ ev' = Ev(c, type)

\* The message c's peer receives in this step.
Received(c) == inbox'[c][Len(inbox'[c])]

\* C17: while the model is unavailable the handshake's status reply and
\* recording_started report asr_ready/asr_enabled = false, and an
\* audio_chunk of a recording client is accepted: the session stays with
\* its audio_chunks incremented by one, no message (no error event) is sent
\* and the connection stays open, receiving.
C17_ModelUnavailable ==
    [][ModelUnavailable =>
         \A c \in Clients :
           /\ Dispatched(c, "handshake") =>
                /\ Len(inbox'[c]) = Len(inbox[c]) + 1
                /\ Received(c).type = "status"
                /\ Received(c).flag = FALSE
           /\ Dispatched(c, "start_recording") =>
                /\ Len(inbox'[c]) = Len(inbox[c]) + 1
                /\ Received(c).type = "recording_started"
                /\ Received(c).flag = FALSE
                /\ active_sessions'[c] # NoSession
           /\ (Dispatched(c, "audio_chunk") /\ active_sessions[c] # NoSession) =>
                /\ active_sessions' =
                     [active_sessions EXCEPT ![c].audio_chunks = @ + 1]
                /\ UNCHANGED <<inbox, conn, pc, audio_buffer>>]_vars

\* A client that was told asr_ready = false and asr_enabled = false has sent
\* two audio_chunks while the model is still unavailable.
C17_Witness ==
    /\ ModelUnavailable
    /\ active_sessions["c1"].audio_chunks = 2
    /\ Len(inbox["c1"]) = 2
    /\ inbox["c1"][1].type = "status" /\ ~inbox["c1"][1].flag
    /\ inbox["c1"][2].type = "recording_started" /\ ~inbox["c1"][2].flag
    /\ conn["c1"] = "open"

\* ------------------------------------------------------------------ C18

\* C18: the text of a Transcript returned by transcribe_segment, on the
\* normal path or in the CPU retry, holds none of the unwanted phrases as a
\* case-insensitive substring.
C18_NoUnwantedPhrase ==
    filt.path # "None" => ~is_hallucination(filt.text)

\* ------------------------------------------------------------------ C19

\* C19: every segment of a returned Transcript has a confidence not below
\* the floor and a cleaned text that is non-empty, not made of digits only
\* and longer than three characters, and the Transcript's text is made of
\* these segments only.
C19_SurvivorsValid ==
    /\ \A i \in 1..Len(filt.segments) :
         LET s == filt.segments[i]
         IN  /\ s.confidence >= min_confidence_threshold
             /\ s.text # << >>
             /\ ~isdigit(s.text)
             /\ Len(s.text) > 3
             /\ s.text = clean_text(s.text)
    /\ filt.text = full_text(filt.segments)

\* ------------------------------------------------------------------ C20

\* C20: the filter applied to the segments of a returned Transcript yields
\* the same segments and the same space-joined text.
C20_FilterIdempotent ==
    filt.refiltered =>
      /\ filt.again = filt.segments
      /\ filt.again_text = filt.text

\* ------------------------------------------------------------------ C21

\* The text begins with one of the error markers, whatever its case.
BeginsWithMarker(text) ==
    \E marker \in ErrorMarkers : startswith(lower(text), marker)

\* Valid as the quality filter is described: non-empty, at least three
\* characters, not digits only, not beginning with an error marker.
DescribedValid(text) ==
    /\ Len(text) >= 3
    /\ ~isdigit(text)
    /\ ~BeginsWithMarker(text)

\* The texts of a log, each stripped.
Stripped(transcripts) ==
    [i \in 1..Len(transcripts) |-> strip(transcripts[i])]

\* C21: on stop a logged Transcript is valid exactly when its text is
\* non-empty, at least 3 characters long, not purely numeric and does not
\* begin with an error marker; the plain-text transcript is the space-joined
\* valid texts in log order, and the valid count is at most the count.
C21_QualityFilter ==
    agg.done =>
      /\ agg.valid_transcripts = SelectSeq(agg.transcripts, DescribedValid)
      /\ agg.original_transcript =
           join(SelectSeq(Stripped(agg.transcripts), DescribedValid))
      /\ agg.valid_transcript_segments <= agg.total_transcript_segments

\* Valid as handle_stop_recording has it: the texts "..." and "null" are
\* rejected as well.
ValidOnStop(text) ==
    DescribedValid(text) /\ text # <<".", ".", ".">> /\ text # <<"n", "u", "l", "l">>

\* No character of the text is a letter.
NoLetters(text) == \A i \in 1..Len(text) : ~isalpha(text[i])

\* C21 as the code has it: "..." and "null" are invalid too, and the
\* plain-text transcript is the space-joined valid texts in log order unless
\* that text has ten characters or more and no letter, in which case it is
\* empty although the valid Transcripts are still counted.
C21_QualityFilterAmended ==
    agg.done =>
      LET joined == join(SelectSeq(Stripped(agg.transcripts), ValidOnStop))
      IN  /\ agg.valid_transcripts = SelectSeq(agg.transcripts, ValidOnStop)
          /\ agg.original_transcript =
               IF Len(joined) >= 10 /\ NoLetters(joined) THEN << >> ELSE joined
          /\ agg.valid_transcript_segments = Len(agg.valid_transcripts)
          /\ agg.total_transcript_segments = Len(agg.transcripts)
          /\ agg.valid_transcript_segments <= agg.total_transcript_segments

\* A log of three Transcripts of which "null" and a digit string were
\* rejected and one text was kept.
C21_Witness ==
    /\ agg.done
    /\ agg.total_transcript_segments = 3
    /\ agg.valid_transcript_segments = 1
    /\ <<"n", "u", "l", "l">> \in Range(agg.transcripts)
    /\ <<"1", "2", "3", "4", "5">> \in Range(agg.transcripts)
    /\ agg.original_transcript =
         <<"h", "e", "l", "l", "o", " ", "t", "h", "e", "r", "e">>

\* ------------------------------------------------------------------ C22

\* C22: the quality tier is high for a plain-text transcript of at least 100
\* characters, medium for at least 50 and fewer than 100, low otherwise.
C22_QualityTiers ==
    agg.done =>
      LET n == Len(agg.original_transcript)
      IN  /\ n >= 100 => agg.transcript_quality = "high"
          /\ (n >= 50 /\ n < 100) => agg.transcript_quality = "medium"
          /\ n < 50 => agg.transcript_quality = "low"

\* C22 as the code has it: the tier is high for more than 100 characters,
\* medium for more than 50 and at most 100, low for 50 or fewer; the values
\* 100 and 50 themselves fall in the lower tier.
C22_QualityTiersAmended ==
    agg.done =>
      LET n == Len(agg.original_transcript)
      IN  /\ agg.original_transcript_length = n
          /\ n > 100 => agg.transcript_quality = "high"
          /\ (n > 50 /\ n <= 100) => agg.transcript_quality = "medium"
          /\ n <= 50 => agg.transcript_quality = "low"

\* A plain-text transcript of exactly 100 characters, rated medium.
C22_Witness ==
    /\ agg.done
    /\ Len(agg.original_transcript) = 100
    /\ agg.transcript_quality = "medium"

\* ------------------------------------------------------------------ C23

\* C23: stop_recording on a Recording session always yields the
\* recording_stopped artifact, built from the session's log (an empty log
\* included), and goes on to end the session.
C23_StopNeverFails ==
    [][\A c \in Clients :
         (Dispatched(c, "stop_recording") /\ active_sessions[c] # NoSession) =>
           /\ Len(inbox'[c]) = Len(inbox[c]) + 1
           /\ Received(c).type = "recording_stopped"
           /\ Received(c).log = active_sessions[c].transcripts
           /\ pc'[c] = "stop_send"]_vars

\* ------------------------------------------------------------------ C24

\* The event loop thread is operating on the loaded model: transcribing or
\* consuming the segments of a transcription, or replacing the model.
LoopOnModel == mx.pc \in {"transcribe", "reload", "retry", "consume"}

\* C24: every operation on the loaded model, the consumption of a
\* transcription's results included, runs while its thread holds the model
\* lock, so that no two of them run at once.
C24_ModelMutualExclusion == LoopOnModel => mx.lock = "loop"

\* ------------------------------------------------------------------ C25

\* C25: while a transcription is executing, the receive loops can still be
\* served: a message that is waiting can be handled before the
\* transcription returns.
C25_InferenceOffCriticalPath ==
    (~LoopIdle /\ nmsg < MaxMsgs) => \E c \in Clients : ENABLED Handle(c)

\* ------------------------------------------------------------------ C26

\* An Utterance was emitted, and with it submitted to transcribe_segment,
\* in this step.
UtteranceSubmitted == nutt' = nutt + 1

\* C26: a step submits at most one Utterance, a handler never suspends with
\* a transcription outstanding (the submitted Utterance has left the buffer
\* and its result is there when the step ends), and no audio of an
\* Utterance is submitted again: every chunk of a submitted Utterance is
\* newer than every chunk of the Utterance submitted before it.
C26_SingleFlight ==
    [][/\ nutt' \in {nutt, nutt + 1}
       /\ UtteranceSubmitted =>
            /\ last_utt' # << >>
            /\ audio_buffer'.buffer = << >>
            /\ \A i \in 1..Len(last_utt'), j \in 1..Len(last_utt) :
                 last_utt'[i].id > last_utt[j].id
       /\ ~UtteranceSubmitted => last_utt' = last_utt]_vars

\* Two Utterances have been submitted, the second made of later chunks.
C26_Witness ==
    /\ nutt = 2
    /\ last_utt # << >>
    /\ last_utt[1].id > 1


\* ---------------------------------------------------------------- C27
\* C27: once a connection's handler has terminated, the connection
\* registry holds no entry that connection registered and the session map
\* holds no session that connection started, whatever handshakes and other
\* messages it sent before.
HandlerTerminated(w) == ~ep.open[w]

C27_RegistryCleanup ==
    \A w \in Clients :
      HandlerTerminated(w) =>
        \A id \in AllIds : /\ ep.connected_clients[id] # w
                           /\ ep.active_sessions[id].by # w

\* ---------------------------------------------------------------- C28
\* C28: every start_recording assigns a session_id that no earlier
\* start_recording, of the same or of another client, was assigned.
C28_FreshSessionIds ==
    \A i, j \in 1..Len(ep.issued) : i # j => ep.issued[i] # ep.issued[j]


\* ---------------------------------------------------------------- C30
\* The chunk handed to add_chunk in this step, and the buffer once the
\* chunk is appended and its frames are counted.
ChunkFed == Len(fed') = Len(fed) + 1
FedChunk ==
    Chunk(fed'[Len(fed')].n, fed'[Len(fed')].loud, Len(fed), Len(fed) + 1, 0)
Counted ==
    CountFrames([audio_buffer EXCEPT !.buffer = deque_append(@, FedChunk),
                                     !.total_duration = @ + Duration(FedChunk.n)],
                FedChunk)
Emitted == Len(emits') - Len(emits)

\* The first of overflow, VAD boundary, duration fallback and count
\* fallback that holds of a buffer.
FirstBoundary(b) ==
    IF OverflowReached(b) THEN "overflow"
    ELSE IF VadBoundary(b) THEN "vad"
    ELSE IF DurationReached(b) THEN "duration"
    ELSE IF CountReached(b) THEN "count"
    ELSE "None"

\* C30: with the chunk appended and its frames counted, add_chunk takes the
\* first of overflow, VAD boundary, duration fallback, count fallback that
\* holds; it emits exactly when one of the four holds, one Utterance at
\* most, which is the whole buffer, and the buffer is empty afterwards.
C30_BoundaryPolicy ==
    [][ChunkFed =>
         /\ Emitted \in {0, 1}
         /\ Emitted = 1 <=> \/ OverflowReached(Counted)
                            \/ VadBoundary(Counted)
                            \/ DurationReached(Counted)
                            \/ CountReached(Counted)
         /\ boundary_log(audio_buffer, FedChunk) = FirstBoundary(Counted)
         /\ Emitted = 1 =>
              /\ emits'[Len(emits')].ids = Ids(Counted.buffer)
              /\ audio_buffer' = EmptyBuffer
         /\ Emitted = 0 => audio_buffer' = Counted]_vars

\* C30 witness: a stream of a hundred sub-frame chunks; no other boundary
\* held on the way and the hundredth chunk emitted them all by the count
\* fallback.
C30_Witness ==
    /\ Len(fed) = chunk_ceiling
    /\ AllSmall
    /\ Len(emits) = 1
    /\ emits[1].at = chunk_ceiling
    /\ Len(emits[1].ids) = chunk_ceiling
    /\ audio_buffer = EmptyBuffer


\* ---------------------------------------------------------------- C29
\* c's session is given its first chunk in this step, and the chunk passes
\* the gate of handle_audio_chunk into add_chunk.
FirstChunkFed(c) ==
    /\ Dispatched(c, "audio_chunk")
    /\ active_sessions[c] # NoSession
    /\ submitted[active_sessions[c].serial] = 0
    /\ nchunk' = nchunk + 1
    /\ engine_ready

\* What the buffer holds was submitted by sessions that are over.
LeftByEarlierSessions ==
    \A i \in 1..Len(audio_buffer.buffer), c \in Clients :
        active_sessions[c].serial # audio_buffer.buffer[i].owner

\* The chunk add_chunk was given in this step: the newest of the Utterance
\* it emitted, or of the buffer.
NewestChunk ==
    IF UtteranceSubmitted THEN last_utt'[Len(last_utt')]
    ELSE audio_buffer'.buffer[Len(audio_buffer'.buffer)]

\* C29: what a session's chunks emit does not depend on what earlier
\* sessions did; in particular the first chunk of a session emits an
\* Utterance exactly when the same chunk fed to a new buffer does, and the
\* Utterance is the same.
C29_SegmentationDeterminism ==
    [][\A c \in Clients :
         (FirstChunkFed(c) /\ LeftByEarlierSessions) =>
            LET alone == add_chunk(EmptyBuffer, NewestChunk)
            IN  /\ UtteranceSubmitted <=> ~alone.seg.none
                /\ UtteranceSubmitted => last_utt' = alone.seg.chunks]_vars


\* ---------------------------------------------------------------- C40
\* The handler of connection w terminates in this step.
Terminates(w) == ep.open[w] /\ ~ep'.open[w]

\* C40: the termination of one connection leaves the registry entries and
\* the sessions of every other connection that is still open in place,
\* also when both presented the same client_id or got the same
\* auto-assigned client_id.
C40_ConnectionIndependence ==
    [][\A w, other \in Clients :
         (Terminates(w) /\ other # w /\ ep.open[other]) =>
            \A id \in AllIds :
               /\ ep.connected_clients[id] = other
                    => ep'.connected_clients[id] = other
               /\ ep.active_sessions[id].by = other
                    => ep'.active_sessions[id] = ep.active_sessions[id]]_vars


\* ---------------------------------------------------------------- C39
\* The chunks fed since the last emission, by number.
UnemittedIds == [i \in 1..(Len(fed) - LastEmitAt) |-> LastEmitAt + i]

\* C39: after every add_chunk the audio not yet emitted is shorter than
\* segment_duration and than max_buffer_duration, fewer than 100 chunks
\* are buffered, fewer than the deque holds, and the buffer holds every
\* chunk fed since the last emission: none was evicted.
C39_BoundedAccumulation ==
    /\ audio_buffer.total_duration < segment_duration * sample_rate
    /\ audio_buffer.total_duration < max_buffer_duration * sample_rate
    /\ audio_buffer.total_duration = UnemittedSamples
    /\ Len(audio_buffer.buffer) < chunk_ceiling
    /\ Len(audio_buffer.buffer) < buffer_maxlen
    /\ Ids(audio_buffer.buffer) = UnemittedIds

\* C39 witness: 99 sub-frame chunks are buffered, one short of the count
\* ceiling and 39,600 samples of audio, and nothing was emitted yet.
C39_Witness ==
    /\ Len(audio_buffer.buffer) = chunk_ceiling - 1
    /\ audio_buffer.total_duration = (chunk_ceiling - 1) * SmallChunk
    /\ emits = << >>


\* ---------------------------------------------------------------- C33
\* Durations of the claim in 30 ms frames.
Speech200ms == 200 \div 30
Silence500ms == 500 \div 30
Silence1s == 1000 \div 30

\* The buffer rests with at least `speech` speech frames followed by at
\* least `silence` frames of trailing silence, not emitted.
RestsWith(speech, silence) ==
    /\ audio_buffer.speech_frames >= speech
    /\ audio_buffer.silence_frames >= silence

Returned == add_chunk(audio_buffer, FedChunk)

\* C32: when add_chunk emits, the buffer it leaves is empty with
\* speech_frames, silence_frames and total_duration zero; the Utterance
\* has the timestamp of the first chunk accumulated since the previous
\* emission and holds all chunks accumulated since then, in arrival order,
\* with all their samples; and _create_segment on an accumulation that is
\* not empty does not return None.
C32_EmissionReset ==
    [][ChunkFed =>
         /\ audio_buffer' = Returned.buf
         /\ Emitted = 1 <=> ~Returned.seg.none
         /\ ~Returned.seg.none =>
              /\ audio_buffer'.buffer = << >>
              /\ audio_buffer'.speech_frames = 0
              /\ audio_buffer'.silence_frames = 0
              /\ audio_buffer'.total_duration = 0
              /\ Returned.seg.timestamp = LastEmitAt
              /\ Ids(Returned.seg.chunks) =
                    [i \in 1..(Len(fed') - LastEmitAt) |-> LastEmitAt + i]
              /\ Returned.seg.n = UnemittedSamples + FedChunk.n
         /\ Counted.buffer # << >>
         /\ ~create_segment(Counted).seg.none]_vars

\* C32 witness: a second Utterance was emitted by the last chunk fed; it
\* holds several chunks, the first of them not the first of the stream,
\* and the buffer is back to its initial state.
C32_Witness ==
    /\ Len(emits) = 2
    /\ emits[2].at = Len(fed)
    /\ Len(emits[2].ids) >= 2
    /\ emits[2].ids[1] > 1
    /\ audio_buffer = EmptyBuffer


\* ---------------------------------------------------------------- C31
\* Frames of the chunk that count as speech: those classified as speech
\* and those whose classification failed.
CountedAsSpeech ==
    {i \in 1..Len(vad.trace) : vad.trace[i] \in {"speech", "error"}}
ClassifiedSilence == {i \in 1..Len(vad.trace) : vad.trace[i] = "silence"}
LastCountedAsSpeech ==
    IF CountedAsSpeech = {} THEN 0
    ELSE CHOOSE i \in CountedAsSpeech : \A j \in CountedAsSpeech : j <= i

\* C31: over the complete frames of a chunk, every speech frame and every
\* frame whose classification failed adds one to speech_frames and zeroes
\* silence_frames, every silence frame adds one to silence_frames and
\* leaves speech_frames; so speech_frames does not decrease, the frames
\* after a failed classification are counted like the others, and an
\* incomplete last frame counts for nothing.
C31_VadCounterUpdate ==
    vad.done =>
        /\ vad.after.speech_frames =
              vad.before.speech_frames + Cardinality(CountedAsSpeech)
        /\ vad.after.silence_frames =
              IF CountedAsSpeech = {}
              THEN vad.before.silence_frames + Cardinality(ClassifiedSilence)
              ELSE Len(vad.trace) - LastCountedAsSpeech
        /\ vad.after.speech_frames >= vad.before.speech_frames
        /\ vad.after.buffer = vad.before.buffer
        /\ vad.after.total_duration = vad.before.total_duration

\* C31 witness: a chunk of a speech frame, a frame whose classification
\* failed, a silence frame and an incomplete frame, met with counters 2
\* and 3: speech_frames is 4 and silence_frames 1 afterwards.
C31_Witness ==
    /\ vad.done
    /\ vad.trace = <<"speech", "error", "silence">>
    /\ vad.n = 3 * frame_samples + 200
    /\ vad.before.speech_frames = 2
    /\ vad.before.silence_frames = 3
    /\ vad.after.speech_frames = 4
    /\ vad.after.silence_frames = 1


\* ---------------------------------------------------------------- C34
\* transcribe_segment is called in this step, after a call that attempted
\* the reload onto CPU.
CalledAfterReload ==
    /\ tr.called
    /\ tr.reloads >= 1
    /\ tr'.called
    /\ tr' # tr

\* C34: once a transcription call of the engine has attempted the in-place
\* reload onto CPU, no later call attempts it again; a later call that
\* fails returns the empty-text error result.
C34_OneTimeReload ==
    [][CalledAfterReload =>
         /\ tr'.reloads = 0
         /\ tr'.env.first \in {"cuda_error", "other_error"}
              => IsErrorResult(tr'.result, tr'.seg)]_vars


\* ---------------------------------------------------------------- C37
\* C37: a status read that reports is_ready = true reports a model_size
\* and a device that are set and are those of the model loaded at that
\* moment, wherever the load thread or a reload stands.
C37_StatusConsistency ==
    LET info == get_config_info(whisper)
    IN  info.is_ready =>
          /\ info.model_size # "None"
          /\ info.device # "None"
          /\ info.model_size = whisper.model.size
          /\ info.device = whisper.model.device


\* ---------------------------------------------------------------- C38
\* CPU mode was forced when the engine was constructed.
ForcedCpu == whisper.requested_device = "cpu"

\* C38: with CPU mode forced the load routine does not come to use the
\* accelerator: its validation leaves no accelerator to attempt, no model
\* is ever loaded on it, and after a successful load the active device is
\* cpu.
C38_ForcedCpuMode ==
    ForcedCpu =>
        /\ ~loader.cuda_available
        /\ whisper.model.device # "cuda"
        /\ (loader.pc = "done" /\ loader.loaded /\ ~tr.called)
              => whisper.device = "cpu"


\* ---------------------------------------------------------------- C35
\* Two or more clients are Recording.
ConcurrentRecording ==
    Cardinality({c \in Clients : active_sessions[c] # NoSession}) >= 2

\* The session with serial number k is c's.
SessionOf(c, k) == active_sessions[c] # NoSession /\ active_sessions[c].serial = k

\* C35: while several clients record, a transcript carries the session_id
\* of the session that submitted the audio of its Utterance, and it is
\* appended to the log of that session and of no other.
C35_TranscriptAttribution ==
    [][(TranscriptProduced /\ ConcurrentRecording) =>
         \A i \in 1..Len(last_utt') :
            /\ \E c \in Clients : SessionOf(c, last_utt'[i].owner)
            /\ \A c \in Clients :
                 /\ SessionOf(c, last_utt'[i].owner) =>
                      /\ ProducedMsg.session_id = active_sessions[c].session_id
                      /\ LogGrew(c)
                 /\ LogGrew(c) => SessionOf(c, last_utt'[i].owner)]_vars


\* ---------------------------------------------------------------- C36
\* c's session leaves active_sessions in this step: it is removed or
\* another session takes its place.
SessionDiscarded(c) ==
    /\ active_sessions[c] # NoSession
    /\ active_sessions'[c].serial # active_sessions[c].serial

\* handle_stop_recording has returned for the session with this serial
\* number, having aggregated its log.
Aggregated(k) == \E s \in stopped' : s.k = k

\* C36: a session leaves active_sessions only once it has been stopped and
\* aggregated; a start_recording of a client that is Recording does not
\* replace the session it has.
C36_NoLogDiscarded ==
    [][\A c \in Clients :
         /\ SessionDiscarded(c) => Aggregated(active_sessions[c].serial)
         /\ (StartHandled(c) /\ active_sessions[c] # NoSession)
               => active_sessions'[c] = active_sessions[c]]_vars

====
